---- MODULE Spec2Model ----
(***************************************************************************)
(* Model of telingo's scheduling algorithms A, B and C                     *)
(* (src/telingo/scheduler/__init__.py).  One scheduler object is built     *)
(* from a configuration and then driven by a sequence of next(result)      *)
(* calls, as the solve loop and the test harness schedule() do.            *)
(*                                                                         *)
(* Python values are represented as follows:                               *)
(*   None as a returned length  -> None (-1; the code never creates a      *)
(*                                 negative length, start < 0 is rejected) *)
(*   result                     -> "NONE" | "SAT" | "UNSAT" | "UNKNOWN"    *)
(*   float (gamma of B, inc and high-water mark of C)                      *)
(*                              -> exact rational <<num, den>>, den > 0;   *)
(*                                 only dyadic values are used, for which  *)
(*                                 IEEE double arithmetic is exact here    *)
(*   B_Scheduler.Run            -> record [index, length, effort, solve]   *)
(***************************************************************************)
EXTENDS Integers, Sequences, FiniteSets, TLC

VARIABLES
    alg,              \* which scheduler class was constructed: "A", "B", "C"
    start,            \* constructor argument start
    inc,              \* constructor argument inc (A, B: integer; C: rational)
    limit,            \* constructor argument limit
    size,             \* constructor argument size (A: size, B: processes)
    propagate_unsat,  \* constructor argument propagate_unsat
    gamma,            \* constructor argument gamma (B), rational
    stream,           \* which results the caller feeds (test harness schedule())
    length,           \* A: __length (integer); C: __length (rational)
    index,            \* B: __index
    runs,             \* __runs
    next_runs,        \* B: __next_runs
    first,            \* __first
    nones,            \* __nones (A, C: lengths; B: runs, identified by index)
    result,           \* the result passed to the last next() call
    ret,              \* the value returned by the last next() call
    raised,           \* the last next() call raised an exception
    rets,             \* all values returned so far, oldest first
    last,             \* the most recent result of every tried in-flight length
    unsat,            \* the largest length an UNSAT result was given for
    queued,           \* the lengths that were put into __runs so far
    legacy,           \* the scheduler of telingo/__init__.py run alongside
    sconfig,          \* Scheduler_Config: the selectors A, B and C
    op,               \* the configuration operation performed last
    outcome,          \* what that operation returned, raised or started
    program,          \* the temporal formulas of the logic program
    horizon,          \* the horizon of the last Theory.translate call
    theory_atoms,     \* prg.theory_atoms: the grounded &tel atoms
    symbols,          \* prg.symbolic_atoms: literal of each grounded atom
    created,          \* number of Formula objects constructed so far
    formulas,         \* Theory.__formulas: representation -> Formula object
    nodes,            \* the fields of the Formula objects in __formulas
    data,             \* Formula.__data: (object, step) -> StepData
    todo,             \* Theory.__todo
    todo_keys,        \* Theory.__todo_keys
    false_literal,    \* Theory.__false_literal (0: None)
    atoms,            \* backend: number of atoms of the program
    rules,            \* backend: the rules added, oldest first
    externals,        \* backend: truth value of the external atoms
    raises,           \* the last Theory.translate call raised
    smain_args,       \* smain: the arguments it was called with
    scheduler,        \* smain: the A_Scheduler object of telingo/__init__.py
    solver,           \* smain: the Solver object
    frame,            \* smain: its position and its local variables
    ctl               \* the Control object: externals set, calls received

schedulerVars == <<alg, start, inc, limit, size, propagate_unsat, gamma,
                   stream, length, index, runs, next_runs, first, nones,
                   result, ret, raised, rets, last, unsat, queued,
                   legacy>>

configVars == <<sconfig, op, outcome>>

theoryVars == <<program, horizon, theory_atoms, symbols, created, formulas,
                nodes, data, todo, todo_keys, false_literal, atoms, rules,
                externals, raises>>

solveVars == <<smain_args, scheduler, solver, frame, ctl>>

vars == <<schedulerVars, configVars, theoryVars, solveVars>>

config == <<alg, start, inc, limit, size, propagate_unsat, gamma, stream>>

None == -1

----------------------------------------------------------------------------
(* Bounds of the model *)

MaxCalls == 5       \* next() calls explored when results are arbitrary
MaxSteady == 18     \* next() calls explored under a steady result stream
MaxLimit == 4       \* largest limit of the generic parameter grid
MaxSize == 3        \* largest size / processes of the generic parameter grid

----------------------------------------------------------------------------
(* Rational arithmetic for the float-valued quantities *)

RECURSIVE Gcd(_, _)
Gcd(a, b) == IF b = 0 THEN a ELSE Gcd(b, a % b)

Abs(x) == IF x < 0 THEN -x ELSE x

Norm(q) ==
    LET g == Gcd(Abs(q[1]), q[2])
    IN  IF g = 0 THEN <<0, 1>> ELSE <<q[1] \div g, q[2] \div g>>

Rat(n) == <<n, 1>>

RatMul(p, q) == Norm(<<p[1] * q[1], p[2] * q[2]>>)

RatAdd1(p) == Norm(<<p[1] + p[2], p[2]>>)

RatLess(p, q) == p[1] * q[2] < q[1] * p[2]

\* Python int(x) for x >= 0: truncation
Trunc(p) == p[1] \div p[2]

RECURSIVE Pow(_, _)
Pow(b, e) == IF e <= 0 THEN 1 ELSE b * Pow(b, e - 1)

----------------------------------------------------------------------------
(* The fields of the scheduler object before a call.  Each branch of next()  *)
(* below yields this record with the fields it assigns changed; returns      *)
(* says that the branch ends in "return None", raises that it ends in an     *)
(* exception.                                                                *)

Self ==
    [length |-> length, index |-> index, runs |-> runs,
     next_runs |-> next_runs, first |-> first, nones |-> nones,
     returns |-> FALSE, raises |-> FALSE]

----------------------------------------------------------------------------
(* Scheduler A: A_Scheduler.next *)

\* mutant: the window is not cut at the limit
A_Window_Unbounded ==
    IF size <= 0 THEN <<>>
    ELSE [i \in 1..size |-> length + ((i - 1) * inc)]

\* the runs created by the first call
A_Window ==
    IF size <= 0 THEN <<>>
    ELSE SelectSeq([i \in 1..size |-> length + ((i - 1) * inc)],
                   LAMBDA x : x <= limit /\ x >= length)

\* first call: reject invalid parameters, else create the window
A_First ==
    IF length < 0 \/ limit < length \/ inc <= 0
    THEN [Self EXCEPT !.returns = TRUE]
    ELSE LET w == A_Window
         IN  [Self EXCEPT !.first = FALSE, !.runs = w,
                          !.length = IF Len(w) > 0 THEN w[Len(w)] ELSE length]

\* result is None: block the head, rotate it to the back
A_None ==
    LET current_length == runs[1]
        ns == nones \cup {current_length}
    IN  IF Cardinality(ns) = Len(runs)
        THEN [Self EXCEPT !.nones = ns, !.returns = TRUE]
        ELSE [Self EXCEPT !.nones = ns,
                          !.runs = Tail(Append(runs, current_length))]

\* mutant: an UNKNOWN result drops the head instead of rotating it
A_Unknown_Drops ==
    [Self EXCEPT !.nones = nones \ {runs[1]}, !.runs = Tail(runs)]

\* result is UNKNOWN: rotate the head to the back
A_Unknown ==
    [Self EXCEPT !.nones = nones \ {runs[1]},
                 !.runs = Tail(Append(runs, runs[1]))]

\* the refill loop run when propagate_unsat is set
RECURSIVE A_Fill(_, _)
A_Fill(rs, tmp) ==
    IF Len(rs) <= size
    THEN LET t == tmp + inc
         IN  IF t > limit THEN [runs |-> rs, length |-> t]
             ELSE A_Fill(Append(rs, t), t)
    ELSE [runs |-> rs, length |-> tmp]

\* mutant: the new length must stay below limit instead of <= limit
A_Conclusive_BelowLimit ==
    LET current_length == runs[1]
        ns == nones \ {current_length}
        kept == IF propagate_unsat
                THEN SelectSeq(runs, LAMBDA i : i >= current_length)
                ELSE runs
        next_length == length + inc
        grow == next_length < limit /\ ns = {}
        grown == IF grow THEN Append(kept, next_length) ELSE kept
        fill == IF propagate_unsat THEN A_Fill(grown, next_length)
                ELSE [runs |-> grown,
                      length |-> IF grow THEN next_length ELSE length]
    IN  [Self EXCEPT !.nones = ns, !.runs = Tail(fill.runs),
                     !.length = fill.length]

\* mutant: propagate_unsat does not drop the smaller lengths
A_Conclusive_KeepsSmaller ==
    LET current_length == runs[1]
        ns == nones \ {current_length}
        next_length == length + inc
        grow == next_length <= limit /\ ns = {}
        grown == IF grow THEN Append(runs, next_length) ELSE runs
        fill == IF propagate_unsat THEN A_Fill(grown, next_length)
                ELSE [runs |-> grown,
                      length |-> IF grow THEN next_length ELSE length]
    IN  [Self EXCEPT !.nones = ns, !.runs = Tail(fill.runs),
                     !.length = fill.length]

\* result is SAT or UNSAT: drop the head, add new lengths
A_Conclusive ==
    LET current_length == runs[1]
        ns == nones \ {current_length}
        kept == IF propagate_unsat
                THEN SelectSeq(runs, LAMBDA i : i >= current_length)
                ELSE runs
        next_length == length + inc
        grow == next_length <= limit /\ ns = {}
        grown == IF grow THEN Append(kept, next_length) ELSE kept
        fill == IF propagate_unsat THEN A_Fill(grown, next_length)
                ELSE [runs |-> grown,
                      length |-> IF grow THEN next_length ELSE length]
    IN  [Self EXCEPT !.nones = ns, !.runs = Tail(fill.runs),
                     !.length = fill.length]

\* the state after next(res)
A_Step(res) ==
    IF first THEN A_First
    ELSE IF Len(runs) = 0 THEN [Self EXCEPT !.returns = TRUE]
    ELSE IF res = "NONE" THEN A_None
    ELSE IF res = "UNKNOWN" THEN A_Unknown
    ELSE A_Conclusive

----------------------------------------------------------------------------
(* Scheduler B: B_Scheduler.next *)

Run(i, l, e, s) == [index |-> i, length |-> l, effort |-> e, solve |-> s]

\* 0.5 < (first.effort+1) * gamma ** (idx - first.index)
B_Threshold(f, idx) ==
    LET d == idx - f.index
    IN  Pow(gamma[2], d) < 2 * (f.effort + 1) * Pow(gamma[1], d)

\* mutant: the threshold without the + 0.5
B_Eligible_NoHalf(i, f) ==
    LET d == i.index - f.index
    IN  i.effort * Pow(gamma[2], d) < (f.effort + 1) * Pow(gamma[1], d)

\* i.effort < ((first.effort+1) * gamma ** (i.index - first.index)) + 0.5
B_Eligible(i, f) ==
    LET d == i.index - f.index
    IN  2 * i.effort * Pow(gamma[2], d)
          < (2 * (f.effort + 1) * Pow(gamma[1], d)) + Pow(gamma[2], d)

\* mutant: the runs not to be solved are put in front of __next_runs
RECURSIVE B_Skip_Prepends(_, _)
B_Skip_Prepends(rs, nr) ==
    IF rs # <<>> /\ ~rs[1].solve
    THEN B_Skip_Prepends(Tail(rs), <<rs[1]>> \o nr)
    ELSE [runs |-> rs, next_runs |-> nr]

\* move runs to __next_runs while the head is not to be solved
RECURSIVE B_Skip(_, _)
B_Skip(rs, nr) ==
    IF rs # <<>> /\ ~rs[1].solve
    THEN B_Skip(Tail(rs), Append(nr, rs[1]))
    ELSE [runs |-> rs, next_runs |-> nr]

\* mutant: only an UNSAT result drops the head, a SAT result defers it
B_Process_SatDefers(res) ==
    IF Len(runs) = 0 THEN [Self EXCEPT !.returns = TRUE]
    ELSE LET current == runs[1]
         IN  IF res = "NONE"
             THEN LET ns == nones \cup {current.index}
                  IN  IF Cardinality(ns) = Len(runs)
                      THEN [Self EXCEPT !.nones = ns, !.returns = TRUE]
                      ELSE LET m == B_Skip(Tail(runs),
                                           Append(next_runs, current))
                           IN  [Self EXCEPT !.nones = ns, !.runs = m.runs,
                                            !.next_runs = m.next_runs]
             ELSE LET nr == IF res = "UNKNOWN"
                            THEN Append(next_runs,
                                   [current EXCEPT !.effort = @ + 1])
                            ELSE IF res = "UNSAT"
                            THEN IF propagate_unsat THEN <<>> ELSE next_runs
                            ELSE Append(next_runs, current)
                      m == B_Skip(Tail(runs), nr)
                  IN  [Self EXCEPT !.nones = nones \ {current.index},
                                   !.runs = m.runs,
                                   !.next_runs = m.next_runs]

\* mutant: an UNSAT result resets __next_runs whatever propagate_unsat is
B_Process_UnsatClears(res) ==
    IF Len(runs) = 0 THEN [Self EXCEPT !.returns = TRUE]
    ELSE LET current == runs[1]
         IN  IF res = "NONE"
             THEN LET ns == nones \cup {current.index}
                  IN  IF Cardinality(ns) = Len(runs)
                      THEN [Self EXCEPT !.nones = ns, !.returns = TRUE]
                      ELSE LET m == B_Skip(Tail(runs),
                                           Append(next_runs, current))
                           IN  [Self EXCEPT !.nones = ns, !.runs = m.runs,
                                            !.next_runs = m.next_runs]
             ELSE LET nr == IF res = "UNKNOWN"
                            THEN Append(next_runs,
                                   [current EXCEPT !.effort = @ + 1])
                            ELSE IF res = "UNSAT"
                            THEN <<>>
                            ELSE next_runs
                      m == B_Skip(Tail(runs), nr)
                  IN  [Self EXCEPT !.nones = nones \ {current.index},
                                   !.runs = m.runs,
                                   !.next_runs = m.next_runs]

\* handle the result of the head, pop it, skip the runs not to be solved
B_Process(res) ==
    IF Len(runs) = 0 THEN [Self EXCEPT !.returns = TRUE]
    ELSE LET current == runs[1]
         IN  IF res = "NONE"
             THEN LET ns == nones \cup {current.index}
                  IN  IF Cardinality(ns) = Len(runs)
                      THEN [Self EXCEPT !.nones = ns, !.returns = TRUE]
                      ELSE LET m == B_Skip(Tail(runs),
                                           Append(next_runs, current))
                           IN  [Self EXCEPT !.nones = ns, !.runs = m.runs,
                                            !.next_runs = m.next_runs]
             ELSE LET nr == IF res = "UNKNOWN"
                            THEN Append(next_runs,
                                   [current EXCEPT !.effort = @ + 1])
                            ELSE IF res = "UNSAT" /\ propagate_unsat
                            THEN <<>>
                            ELSE next_runs
                      m == B_Skip(Tail(runs), nr)
                  IN  [Self EXCEPT !.nones = nones \ {current.index},
                                   !.runs = m.runs,
                                   !.next_runs = m.next_runs]

\* move the pending runs to the current runs, set solve by the threshold
B_Admit(nr) ==
    [k \in 1..Len(nr) |->
        IF k = 1 THEN [nr[1] EXCEPT !.solve = TRUE]
        ELSE [nr[k] EXCEPT !.solve = B_Eligible(nr[k], nr[1])]]

\* mutant: the window may hold one run more than size
RECURSIVE B_Grow_OneMore(_, _, _, _)
B_Grow_OneMore(rs, idx, f, ns) ==
    IF B_Threshold(f, idx) /\ ns = {}
    THEN IF Len(rs) > size THEN [runs |-> rs, index |-> idx]
         ELSE LET next_length == start + (inc * idx)
              IN  IF next_length > limit THEN [runs |-> rs, index |-> idx]
                  ELSE B_Grow_OneMore(
                          Append(rs, Run(idx, next_length, 0, TRUE)),
                          idx + 1, f, ns)
    ELSE [runs |-> rs, index |-> idx]

\* mutant: new runs are added whatever the size
RECURSIVE B_Grow_IgnoresSize(_, _, _, _)
B_Grow_IgnoresSize(rs, idx, f, ns) ==
    IF B_Threshold(f, idx) /\ ns = {}
    THEN LET next_length == start + (inc * idx)
         IN  IF next_length > limit THEN [runs |-> rs, index |-> idx]
             ELSE B_Grow_IgnoresSize(
                      Append(rs, Run(idx, next_length, 0, TRUE)),
                      idx + 1, f, ns)
    ELSE [runs |-> rs, index |-> idx]

\* add new runs while the threshold, the size and the limit allow
RECURSIVE B_Grow(_, _, _, _)
B_Grow(rs, idx, f, ns) ==
    IF B_Threshold(f, idx) /\ ns = {}
    THEN IF Len(rs) >= size THEN [runs |-> rs, index |-> idx]
         ELSE LET next_length == start + (inc * idx)
              IN  IF next_length > limit THEN [runs |-> rs, index |-> idx]
                  ELSE B_Grow(Append(rs, Run(idx, next_length, 0, TRUE)),
                              idx + 1, f, ns)
    ELSE [runs |-> rs, index |-> idx]

\* the part of next() after the result was handled, on state s
B_Refill(s) ==
    IF s.runs # <<>> THEN s
    ELSE IF s.next_runs # <<>>
    THEN IF Cardinality(s.nones) = Len(s.next_runs)
         THEN [s EXCEPT !.returns = TRUE]
         ELSE LET rs == B_Admit(s.next_runs)
                  g == B_Grow(rs, s.index, rs[1], s.nones)
              IN  [s EXCEPT !.runs = g.runs, !.index = g.index,
                            !.next_runs = <<>>]
    ELSE IF Len(s.runs) >= size THEN [s EXCEPT !.returns = TRUE]
    ELSE LET new == Run(s.index, start + (inc * s.index), 0, TRUE)
         IN  IF new.length > limit
             THEN [s EXCEPT !.runs = <<new>>, !.index = s.index + 1,
                            !.returns = TRUE]
             ELSE LET g == B_Grow(<<new>>, s.index + 1, new, s.nones)
                  IN  [s EXCEPT !.runs = g.runs, !.index = g.index,
                                !.next_runs = <<>>]

\* the state after next(res)
B_Step(res) ==
    IF first
    THEN IF start < 0 \/ inc <= 0 \/ start > limit
         THEN [Self EXCEPT !.returns = TRUE]
         ELSE B_Refill([Self EXCEPT !.first = FALSE])
    ELSE LET s == B_Process(res)
         IN  IF s.returns THEN s ELSE B_Refill(s)

----------------------------------------------------------------------------
(* Scheduler C: C_Scheduler.next *)

\* mutant: limit < 0 and start > limit are not rejected
C_First_NoLimitCheck ==
    IF length[1] < 0 \/ RatLess(inc, Rat(1))
    THEN [Self EXCEPT !.returns = TRUE]
    ELSE [Self EXCEPT !.runs = <<Trunc(length)>>, !.first = FALSE]

\* first call: reject invalid parameters, else queue the start length
C_First ==
    IF length[1] < 0 \/ limit < 0 \/ RatLess(inc, Rat(1))
       \/ RatLess(Rat(limit), length)
    THEN [Self EXCEPT !.returns = TRUE]
    ELSE [Self EXCEPT !.runs = <<Trunc(length)>>, !.first = FALSE]

\* result is None: block the head, rotate it to the back
C_None ==
    IF Len(runs) = 0 THEN [Self EXCEPT !.raises = TRUE]
    ELSE LET ns == nones \cup {runs[1]}
         IN  IF Cardinality(ns) = Len(runs)
             THEN [Self EXCEPT !.nones = ns, !.returns = TRUE]
             ELSE [Self EXCEPT !.nones = ns,
                               !.runs = Tail(Append(runs, runs[1]))]

\* mutant: the high-water mark is truncated before it is multiplied
C_NextLength_Truncated ==
    LET next_length == RatMul(Rat(Trunc(length)), inc)
    IN  IF Trunc(next_length) = Trunc(length) THEN Rat(Trunc(length) + 1)
        ELSE next_length

\* the next length: the high-water mark times inc, or plus one
C_NextLength ==
    LET next_length == RatMul(length, inc)
    IN  IF Trunc(next_length) = Trunc(length) THEN RatAdd1(length)
        ELSE next_length

\* mutant: the tried length is re-enqueued before the new length is added
C_Result_HeadFirst(res) ==
    IF Len(runs) = 0 THEN [Self EXCEPT !.returns = TRUE]
    ELSE LET current_length == runs[1]
             ns == nones \ {current_length}
             next_length == C_NextLength
             grow == Trunc(next_length) <= limit /\ ns = {}
             handled == IF res = "UNKNOWN" THEN Append(runs, current_length)
                        ELSE IF propagate_unsat
                        THEN SelectSeq(runs, LAMBDA i : i >= current_length)
                        ELSE runs
             grown == IF grow THEN Append(handled, Trunc(next_length))
                      ELSE handled
         IN  [Self EXCEPT !.nones = ns, !.runs = Tail(grown),
                          !.length = IF grow THEN next_length ELSE length]

\* mutant: smaller lengths are dropped whatever propagate_unsat says
C_Result_AlwaysPropagates(res) ==
    IF Len(runs) = 0 THEN [Self EXCEPT !.returns = TRUE]
    ELSE LET current_length == runs[1]
             ns == nones \ {current_length}
             next_length == C_NextLength
             grow == Trunc(next_length) <= limit /\ ns = {}
             grown == IF grow THEN Append(runs, Trunc(next_length)) ELSE runs
             handled == IF res = "UNKNOWN" THEN Append(grown, current_length)
                        ELSE SelectSeq(grown, LAMBDA i : i >= current_length)
         IN  [Self EXCEPT !.nones = ns, !.runs = Tail(handled),
                          !.length = IF grow THEN next_length ELSE length]

\* mutant: only an UNSAT result keeps the tried length out of the queue
C_Result_SatRequeues(res) ==
    IF Len(runs) = 0 THEN [Self EXCEPT !.returns = TRUE]
    ELSE LET current_length == runs[1]
             ns == nones \ {current_length}
             next_length == C_NextLength
             grow == Trunc(next_length) <= limit /\ ns = {}
             grown == IF grow THEN Append(runs, Trunc(next_length)) ELSE runs
             handled == IF res # "UNSAT" THEN Append(grown, current_length)
                        ELSE IF propagate_unsat
                        THEN SelectSeq(grown, LAMBDA i : i >= current_length)
                        ELSE grown
         IN  [Self EXCEPT !.nones = ns, !.runs = Tail(handled),
                          !.length = IF grow THEN next_length ELSE length]

\* result is SAT, UNSAT or UNKNOWN: add a new length, handle the head
C_Result(res) ==
    IF Len(runs) = 0 THEN [Self EXCEPT !.returns = TRUE]
    ELSE LET current_length == runs[1]
             ns == nones \ {current_length}
             next_length == C_NextLength
             grow == Trunc(next_length) <= limit /\ ns = {}
             grown == IF grow THEN Append(runs, Trunc(next_length)) ELSE runs
             handled == IF res = "UNKNOWN" THEN Append(grown, current_length)
                        ELSE IF propagate_unsat
                        THEN SelectSeq(grown, LAMBDA i : i >= current_length)
                        ELSE grown
         IN  [Self EXCEPT !.nones = ns, !.runs = Tail(handled),
                          !.length = IF grow THEN next_length ELSE length]

\* the state after next(res)
C_Step(res) ==
    IF first THEN C_First
    ELSE IF res = "NONE" THEN C_None
    ELSE C_Result(res)

----------------------------------------------------------------------------
(* Construction and the callers *)

Results == {"NONE", "SAT", "UNSAT", "UNKNOWN"}

\* the results a caller feeds after the first call
Streams == {"any", "conclusive", "unknown", "none", "alternating"}

Allowed(st) ==
    CASE st = "any" -> Results
      [] st = "conclusive" -> {"SAT", "UNSAT"}
      [] st = "unknown" -> {"UNKNOWN"}
      [] st = "none" -> {"NONE"}
      [] st = "alternating" ->
            IF Len(rets) % 2 = 1 THEN {"UNKNOWN"} ELSE {"UNSAT"}

\* gamma and inc values the rationals stand for: 0, 1/2, 1, 2, -1/2 and
\* 1/2, 1, 3/2, 2
Gammas == {<<0, 1>>, <<1, 2>>, <<1, 1>>, <<2, 1>>, <<-1, 2>>}
Factors == {<<1, 2>>, <<1, 1>>, <<3, 2>>, <<2, 1>>}

Cfg(a, s, i, l, z, p, g) ==
    [alg |-> a, start |-> s, inc |-> i, limit |-> l, size |-> z,
     propagate_unsat |-> p, gamma |-> g]

\* the parameter grid, with invalid values on every axis
GridConfigs ==
    {Cfg("A", s, i, l, z, p, <<0, 1>>) :
        s \in -1..1, i \in 0..2, l \in -1..MaxLimit, z \in 0..MaxSize,
        p \in BOOLEAN}
    \cup UNION {{Cfg("B", s, i, l, z, p, g) :
        s \in -1..1, i \in 0..2, l \in -1..MaxLimit, z \in 0..MaxSize,
        p \in BOOLEAN} : g \in Gammas}
    \cup {Cfg("C", s, f, l, 0, p, <<0, 1>>) :
        s \in -1..1, f \in Factors, l \in -1..MaxLimit, p \in BOOLEAN}

\* the parameters of the unit tests test_A_result, test_B_result,
\* test_B_gamma and test_C_result
TestConfigs ==
    {Cfg("A", 0, 5, 30, 4, TRUE, <<0, 1>>),
     Cfg("C", 0, <<3, 2>>, 30, 0, TRUE, <<0, 1>>)}
    \cup {Cfg("B", 0, 5, 30, 5, TRUE, g) : g \in Gammas}

\* the parameters of test_A_propagate_unsat and test_C_propagate_unsat,
\* which feed the results UKN, UNSAT repeatedly
AlternatingConfigs ==
    {Cfg("A", 0, 1, 30, 4, p, <<0, 1>>) : p \in BOOLEAN}
    \cup {Cfg("C", 0, <<3, 2>>, 30, 0, p, <<0, 1>>) : p \in BOOLEAN}

Configs == GridConfigs \cup TestConfigs

\* the identities of the lengths in the queues of the object with fields s
\* (A, C: the length; B: the index of the run)
InFlightOf(s) ==
    IF alg = "B"
    THEN {s.runs[k].index : k \in 1..Len(s.runs)}
         \cup {s.next_runs[k].index : k \in 1..Len(s.next_runs)}
    ELSE {s.runs[k] : k \in 1..Len(s.runs)}

InFlight == InFlightOf(Self)

\* the lengths in the queues of the object with fields s
LengthsOf(s) ==
    IF alg = "B"
    THEN {s.runs[k].length : k \in 1..Len(s.runs)}
         \cup {s.next_runs[k].length : k \in 1..Len(s.next_runs)}
    ELSE {s.runs[k] : k \in 1..Len(s.runs)}

\* next() takes its argument as the result of the head of __runs
Recorded == ~first /\ Len(runs) > 0
HeadId == IF alg = "B" THEN runs[1].index ELSE runs[1]
HeadLength == IF alg = "B" THEN runs[1].length ELSE runs[1]

----------------------------------------------------------------------------
(* Scheduler_Config: the selectors and the class defaults *)

\* a selector holds None or a number; numbers are rationals, None is NoValue
NoValue == <<0, 0>>

Selectors == {"A", "B", "C"}

\* values given to the selectors: size for A, gamma for B, factor for C
SelectorValues(sel) ==
    CASE sel = "A" -> {<<0, 1>>, <<1, 1>>, <<5, 1>>}
      [] sel = "B" -> {<<0, 1>>, <<1, 2>>, <<1, 1>>}
      [] sel = "C" -> {<<0, 1>>, <<1, 1>>, <<3, 2>>}

\* `getattr(self, i, None) is not None`
IsSet(v) == v # NoValue

\* `if self.A:`, `scheduler_options.get('A')`: None and 0 are false
Truthy(v) == v # NoValue /\ v[1] # 0

Default_inc == 5
Default_processes == 20
Default_start == 0
Default_limit == 3000
Default_size == 5

\* a new Scheduler_Config: A = B = C = None
NoSelectors == [sel \in Selectors |-> NoValue]

\* the configuration plays no part in a run of one scheduler
ConfigIdle == sconfig = NoSelectors /\ op = "none" /\ outcome = "none"

\* a Theory object and a program before anything was grounded
NoTheory ==
    /\ horizon = -1 /\ theory_atoms = <<>> /\ symbols = <<>>
    /\ created = 0 /\ formulas = <<>> /\ nodes = <<>> /\ data = <<>>
    /\ todo = <<>> /\ todo_keys = {} /\ false_literal = 0
    /\ atoms = 0 /\ rules = <<>> /\ externals = <<>> /\ raises = FALSE

\* smain is not running
SolveIdle ==
    /\ smain_args = <<>> /\ scheduler = <<>> /\ solver = <<>>
    /\ frame = [pc |-> "idle"] /\ ctl = <<>>

\* no program is translated in a run of one scheduler or of the configuration
TheoryIdle == program = [initial |-> {}, always |-> {}] /\ NoTheory

\* the object after __init__ with the arguments c, called under stream st
Constructed(c, st) ==
    /\ last = [id \in {} |-> "NONE"]
    /\ unsat = None
    /\ queued = {}
    /\ alg = c.alg
    /\ start = c.start
    /\ inc = c.inc
    /\ limit = c.limit
    /\ size = c.size
    /\ propagate_unsat = c.propagate_unsat
    /\ gamma = c.gamma
    /\ stream = st
    /\ length = IF c.alg = "C" THEN Rat(c.start) ELSE c.start
    /\ index = 0
    /\ runs = <<>>
    /\ next_runs = <<>>
    /\ first = TRUE
    /\ nones = {}
    /\ result = "NONE"
    /\ ret = None
    /\ raised = FALSE
    /\ rets = <<>>

Init ==
    \E c \in Configs \cup AlternatingConfigs, st \in Streams :
        /\ ConfigIdle
        /\ TheoryIdle
        /\ SolveIdle
        /\ IF st = "alternating" THEN c \in AlternatingConfigs
                                 ELSE c \in Configs
        /\ Constructed(c, st)
        /\ legacy = <<>>

\* the caller may make another call; the first call passes None
MayCall(res) ==
    /\ Len(rets) < (IF stream = "any" THEN MaxCalls ELSE MaxSteady)
    /\ res \in (IF Len(rets) = 0 THEN {"NONE"} ELSE Allowed(stream))

\* one next(res) call whose effect on the object is s
CallOn(res, s, value) ==
    /\ length' = s.length
    /\ index' = s.index
    /\ runs' = s.runs
    /\ next_runs' = s.next_runs
    /\ first' = s.first
    /\ nones' = s.nones
    /\ result' = res
    /\ raised' = s.raises
    /\ ret' = IF s.raises \/ s.returns THEN None ELSE value
    /\ rets' = Append(rets, ret')
    /\ last' = LET l1 == IF Recorded
                         THEN [id \in DOMAIN last \cup {HeadId} |->
                                 IF id = HeadId THEN res ELSE last[id]]
                         ELSE last
               IN  [id \in DOMAIN l1 \cap InFlightOf(s) |-> l1[id]]
    /\ unsat' = IF Recorded /\ res = "UNSAT" /\ HeadLength > unsat
                THEN HeadLength ELSE unsat
    /\ queued' = queued \cup LengthsOf(s)
    /\ UNCHANGED config
    /\ UNCHANGED <<configVars, theoryVars, solveVars>>

\* the call on the scheduler of telingo/scheduler alone
Call(res, s, value) == CallOn(res, s, value) /\ UNCHANGED legacy

A_next ==
    \E res \in Results :
        /\ alg = "A"
        /\ MayCall(res)
        /\ LET s == A_Step(res)
           IN  Call(res, s, IF Len(s.runs) > 0 THEN s.runs[1] ELSE None)

B_next ==
    \E res \in Results :
        /\ alg = "B"
        /\ MayCall(res)
        /\ LET s == B_Step(res)
           IN  Call(res, s, s.runs[1].length)

C_next ==
    \E res \in Results :
        /\ alg = "C"
        /\ MayCall(res)
        /\ LET s == C_Step(res)
           IN  Call(res, s, IF Len(s.runs) > 0 THEN s.runs[1] ELSE None)

Next == A_next \/ B_next \/ C_next

Spec == Init /\ [][Next]_vars

----------------------------------------------------------------------------
(* Scheduler_Config.single_scheduler and build_scheduler, Application.main *)

\* the number of selectors that are not None
Number == Cardinality({sel \in Selectors : IsSet(sconfig[sel])})

\* mutant: a selector counts only if its value is true
single_scheduler_CountsTruthy ==
    LET number == Cardinality({sel \in Selectors : Truthy(sconfig[sel])})
    IN  IF number > 1 THEN "raises"
        ELSE IF number = 1 THEN "True" ELSE "False"

\* what single_scheduler() does: "raises", or the value it returns
single_scheduler ==
    IF Number > 1 THEN "raises"
    ELSE IF Number = 1 THEN "True" ELSE "False"

\* the scheduler the chain `if A: ... elif B: ... elif C: ...` constructs,
\* with the default A_Scheduler of size 5 when no branch is taken
Chosen(single) ==
    IF single /\ Truthy(sconfig.A)
    THEN Cfg("A", Default_start, Default_inc, Default_limit, sconfig.A[1],
             TRUE, <<0, 1>>)
    ELSE IF single /\ Truthy(sconfig.B)
    THEN Cfg("B", Default_start, Default_inc, Default_limit,
             Default_processes, TRUE, sconfig.B)
    ELSE IF single /\ Truthy(sconfig.C)
    THEN Cfg("C", Default_start, sconfig.C, Default_limit, 0, TRUE, <<0, 1>>)
    ELSE Cfg("A", Default_start, Default_inc, Default_limit, Default_size,
             TRUE, <<0, 1>>)

\* the fields of a newly constructed scheduler
Construct(c) ==
    /\ alg' = c.alg
    /\ start' = c.start
    /\ inc' = c.inc
    /\ limit' = c.limit
    /\ size' = c.size
    /\ propagate_unsat' = c.propagate_unsat
    /\ gamma' = c.gamma
    /\ stream' = "any"
    /\ length' = IF c.alg = "C" THEN Rat(c.start) ELSE c.start
    /\ index' = 0
    /\ runs' = <<>>
    /\ next_runs' = <<>>
    /\ first' = TRUE
    /\ nones' = {}
    /\ result' = "NONE"
    /\ ret' = None
    /\ raised' = FALSE
    /\ rets' = <<>>
    /\ last' = [id \in {} |-> "NONE"]
    /\ unsat' = None
    /\ queued' = {}
    /\ legacy' = <<>>

\* no scheduler has been constructed yet
NoScheduler ==
    /\ alg = "none"
    /\ start = 0 /\ inc = 0 /\ limit = 0 /\ size = 0
    /\ propagate_unsat = FALSE /\ gamma = <<0, 1>> /\ stream = "any"
    /\ length = 0 /\ index = 0 /\ runs = <<>> /\ next_runs = <<>>
    /\ first = TRUE /\ nones = {} /\ result = "NONE" /\ ret = None
    /\ raised = FALSE /\ rets = <<>> /\ last = [id \in {} |-> "NONE"]
    /\ unsat = None /\ queued = {} /\ legacy = <<>>

ConfigInit == sconfig = NoSelectors /\ op = "none" /\ outcome = "none"
              /\ NoScheduler /\ TheoryIdle /\ SolveIdle

\* config.A = 5
SetSelector ==
    \E sel \in Selectors : \E v \in SelectorValues(sel) :
        /\ sconfig' = [sconfig EXCEPT ![sel] = v]
        /\ op' = "set" /\ outcome' = "none"
        /\ UNCHANGED <<schedulerVars, theoryVars, solveVars>>

\* config.A = None
ClearSelector ==
    \E sel \in Selectors :
        /\ sconfig' = [sconfig EXCEPT ![sel] = NoValue]
        /\ op' = "set" /\ outcome' = "none"
        /\ UNCHANGED <<schedulerVars, theoryVars, solveVars>>

Call_single_scheduler ==
    /\ op' = "single_scheduler"
    /\ outcome' = single_scheduler
    /\ UNCHANGED <<sconfig, schedulerVars, theoryVars, solveVars>>

build_scheduler ==
    /\ op' = "build_scheduler"
    /\ IF single_scheduler = "raises"
       THEN outcome' = "raises" /\ UNCHANGED schedulerVars
       ELSE outcome' = "scheduler" /\ Construct(Chosen(single_scheduler = "True"))
    /\ UNCHANGED <<sconfig, theoryVars, solveVars>>

\* Application.main with the selectors as options: the check of the number
\* of selectors, then smain (ground, translate, construct the scheduler) or
\* imain (ground, translate, solve)
main ==
    /\ op' = "main"
    /\ IF Number > 1
       THEN outcome' = "raises" /\ UNCHANGED schedulerVars
       ELSE IF Number = 1
       THEN outcome' = "smain" /\ Construct(Chosen(TRUE))
       ELSE outcome' = "imain" /\ UNCHANGED schedulerVars
    /\ UNCHANGED <<sconfig, theoryVars, solveVars>>

ConfigNext ==
    SetSelector \/ ClearSelector \/ Call_single_scheduler \/ build_scheduler
    \/ main

ConfigSpec == ConfigInit /\ [][ConfigNext]_vars

\* a scheduler was constructed, or grounding was started, by the last
\* operation
Started == outcome \in {"scheduler", "smain", "imain"}

(* C15: after any sequence of setting and clearing selectors,               *)
(* single_scheduler raises if two or more selectors are set, returns True   *)
(* if exactly one is set and False if none is; build_scheduler raises in    *)
(* the same case and then constructs no scheduler; nothing is constructed,  *)
(* grounded or solved while two or more selectors are set.                  *)
C15_OneSelector ==
    /\ [](op = "single_scheduler" =>
            /\ Number >= 2 => outcome = "raises"
            /\ Number = 1 => outcome = "True"
            /\ Number = 0 => outcome = "False")
    /\ []((op = "build_scheduler" /\ Number >= 2) => outcome = "raises")
    /\ [][(op' = "build_scheduler" /\ outcome' = "raises")
            => UNCHANGED schedulerVars]_vars
    /\ [](Started => Number <= 1)

C15_Witness ==
    /\ op = "build_scheduler" /\ outcome = "raises" /\ alg = "B"
    /\ IsSet(sconfig.A) /\ IsSet(sconfig.C) /\ ~IsSet(sconfig.B)

\* the one selector that is set
TheSelector == CHOOSE sel \in Selectors : IsSet(sconfig[sel])

(* C16: when exactly one selector is set, build_scheduler builds the        *)
(* scheduler of that variant with the selector's value as its size (A),     *)
(* gamma (B) or growth factor (C); when none is set it builds A with size 5.*)
C16_BuildsTheSelected ==
    (op = "build_scheduler" /\ outcome = "scheduler") =>
        /\ Number = 1 =>
            /\ alg = TheSelector
            /\ alg = "A" => size = sconfig.A[1]
            /\ alg = "B" => gamma = sconfig.B
            /\ alg = "C" => inc = sconfig.C
        /\ Number = 0 => (alg = "A" /\ size = Default_size)

----------------------------------------------------------------------------
(* Vocabulary of the properties *)

Min(a, b) == IF a < b THEN a ELSE b

\* the number of lengths start + k*inc (k >= 0) that are <= limit
Count == ((limit - start) \div inc) + 1

\* the k-th value (k >= 1) of a round-robin over the first w lengths
Cycle(k, w) == start + (((k - 1) % w) * inc)

ValidA == alg = "A" /\ start >= 0 /\ start <= limit /\ inc > 0 /\ size > 0
ValidB == alg = "B" /\ start >= 0 /\ start <= limit /\ inc > 0 /\ size > 0
ValidC ==
    alg = "C" /\ start >= 0 /\ limit >= 0 /\ start <= limit
    /\ ~RatLess(inc, Rat(1))

InvalidA == alg = "A" /\ (start < 0 \/ start > limit \/ inc <= 0 \/ size <= 0)
InvalidB == alg = "B" /\ (start < 0 \/ inc <= 0 \/ start > limit \/ size <= 0)
InvalidC ==
    alg = "C" /\ (start < 0 \/ limit < 0 \/ start > limit
                  \/ RatLess(inc, Rat(1)))

TestA == alg = "A" /\ start = 0 /\ inc = 5 /\ limit = 30 /\ size = 4
TestB == alg = "B" /\ start = 0 /\ inc = 5 /\ limit = 30 /\ size = 5
TestC == alg = "C" /\ start = 0 /\ inc = <<3, 2>> /\ limit = 30

\* rets agrees with the sequence e as far as both go
AgreesWith(e) == \A k \in 1..Min(Len(rets), Len(e)) : rets[k] = e[k]

----------------------------------------------------------------------------
(* C1: scheduler A with valid parameters, fed only SAT or UNSAT after the    *)
(* first call, returns start, start+inc, start+2*inc, ... up to the largest  *)
(* such value <= limit, each once and in increasing order, and the call      *)
(* after that returns None; for 0, 5, 30, 4 this is 0,5,10,15,20,25,30.      *)
C1_ConclusiveA ==
    (ValidA /\ stream = "conclusive") =>
        /\ \A k \in 1..Len(rets) :
              /\ k <= Count => rets[k] = start + ((k - 1) * inc)
              /\ k = Count + 1 => rets[k] = None
        /\ TestA => AgreesWith(<<0, 5, 10, 15, 20, 25, 30, None>>)

C1_Witness ==
    TestA /\ stream = "conclusive" /\ result = "UNSAT"
    /\ rets = <<0, 5, 10, 15, 20, 25, 30, None>>

(* C2: scheduler A with valid parameters, fed only UNKNOWN, cycles           *)
(* round-robin through the initial window (the first min(size, Count)        *)
(* lengths), never queues a length outside it and never returns None; for    *)
(* 0, 5, 30, 4 this is 0,5,10,15,0,5,10,15,0,5,...                           *)
C2_UnknownA ==
    (ValidA /\ stream = "unknown") =>
        /\ \A k \in 1..Len(rets) : rets[k] = Cycle(k, Min(size, Count))
        /\ \A k \in 1..Len(runs) :
              \E j \in 0..(Min(size, Count) - 1) : runs[k] = start + (j * inc)
        /\ TestA => AgreesWith(<<0, 5, 10, 15, 0, 5, 10, 15, 0, 5>>)

C2_Witness ==
    TestA /\ stream = "unknown"
    /\ rets = <<0, 5, 10, 15, 0, 5, 10, 15, 0, 5>>

(* C3: every scheduler built with invalid numeric parameters returns None    *)
(* on its first next() call and raises nothing.                              *)
C3_InvalidParameters ==
    ((InvalidA \/ InvalidB \/ InvalidC) /\ Len(rets) >= 1) =>
        /\ rets[1] = None
        /\ Len(rets) = 1 => ~raised

C3_Witness ==
    /\ alg = "B" /\ start = 0 /\ inc = 1 /\ limit = 2 /\ size <= 0
    /\ rets = <<None>> /\ ~raised

(* C4: in each scheduler, once a next() call has returned None, every later  *)
(* call returns None whatever result is passed, and no call raises.          *)
C4_TerminalIsPermanent ==
    [][(Len(rets) > 0 /\ ret = None /\ ~raised)
          => (ret' = None /\ ~raised')]_vars

(* C5: every value other than None returned by next() is a length L with     *)
(* start <= L <= limit, for every sequence of calls and results.             *)
C5_ReturnedLengthInRange ==
    ret # None => (start <= ret /\ ret <= limit)

\* the high-water mark hw times inc, or hw + 1 when the integer part stalls
Grown(hw) ==
    LET m == RatMul(hw, inc)
    IN  IF Trunc(m) = Trunc(hw) THEN RatAdd1(hw) ELSE m

\* the lengths grown from high-water mark hw while they stay <= limit
RECURSIVE GrownLengths(_, _)
GrownLengths(acc, hw) ==
    IF Trunc(Grown(hw)) > limit THEN acc
    ELSE GrownLengths(Append(acc, Trunc(Grown(hw))), Grown(hw))

(* C6: scheduler C with valid parameters, fed only SAT or UNSAT, returns a   *)
(* strictly increasing sequence of lengths, each once: start, then the       *)
(* integer part of the running high-water mark times inc (or high-water + 1  *)
(* when that does not increase the integer part), and None as soon as the    *)
(* next value would exceed limit; for 0, 1.5, 30: 0,1,2,3,4,6,10,15,22.      *)
C6_ConclusiveC ==
    (ValidC /\ stream = "conclusive") =>
        LET e == GrownLengths(<<start>>, Rat(start))
        IN  /\ AgreesWith(e)
            /\ Len(rets) > Len(e) => rets[Len(e) + 1] = None
            /\ \A j, k \in 1..Min(Len(rets), Len(e)) :
                  j < k => rets[j] < rets[k]
            /\ TestC => AgreesWith(<<0, 1, 2, 3, 4, 6, 10, 15, 22, None>>)

C6_Witness ==
    TestC /\ stream = "conclusive" /\ result = "SAT"
    /\ rets = <<0, 1, 2, 3, 4, 6, 10, 15, 22, None>>

(* C7: scheduler C with valid parameters: an UNKNOWN result re-enqueues the  *)
(* tried length at the back of the queue, behind the newly grown length;     *)
(* under a steady UNKNOWN stream the new length is appended exactly while it *)
(* stays <= limit, no queued length is lost, and once nothing is appended    *)
(* the queue is rotated round-robin; for 0, 1.5, 30 the first ten lengths    *)
(* are 0,1,0,2,1,3,0,4,2,6.                                                  *)
C7_UnknownC ==
    /\ [][(ValidC /\ ~first /\ runs # <<>> /\ result' = "UNKNOWN"
             /\ Len(rets') = Len(rets) + 1) =>
            LET n == Len(runs')
                appended == Len(runs') = Len(runs) + 1
            IN  /\ n >= 1 /\ runs'[n] = runs[1]
                /\ appended => (n >= 2 /\ runs'[n - 1] = Trunc(length')
                                /\ length' = Grown(length))
                /\ stream = "unknown" =>
                      /\ appended <=> Trunc(Grown(length)) <= limit
                      /\ \A k \in 1..Len(runs) :
                            \E j \in 1..n : runs'[j] = runs[k]
                      /\ ~appended => (runs' = Append(Tail(runs), runs[1])
                                       /\ ret' = runs'[1])]_vars
    /\ []((TestC /\ stream = "unknown") =>
            AgreesWith(<<0, 1, 0, 2, 1, 3, 0, 4, 2, 6>>))

C7_Witness ==
    TestC /\ stream = "unknown" /\ rets = <<0, 1, 0, 2, 1, 3, 0, 4, 2, 6>>

(* C8: scheduler B with valid parameters under a steady UNKNOWN stream: with *)
(* gamma >= 1 the window is filled at once with the first min(processes,     *)
(* Count) lengths and cycled round-robin (0, 5, 30, 5, gamma 1 gives         *)
(* 0,5,10,15,20,0,5,...); with gamma <= 0 no second length is ever admitted  *)
(* and only start is returned.                                               *)
C8_UnknownB ==
    (ValidB /\ stream = "unknown") =>
        /\ ~RatLess(gamma, Rat(1)) =>
              \A k \in 1..Len(rets) : rets[k] = Cycle(k, Min(size, Count))
        /\ ~RatLess(Rat(0), gamma) =>
              /\ \A k \in 1..Len(rets) : rets[k] = start
              /\ index <= 1 /\ Len(runs) + Len(next_runs) <= 1
        /\ (TestB /\ gamma = <<1, 1>>) =>
              AgreesWith(<<0, 5, 10, 15, 20, 0, 5, 10, 15, 20>>)

C8_Witness ==
    TestB /\ gamma = <<1, 1>> /\ stream = "unknown"
    /\ rets = <<0, 5, 10, 15, 20, 0, 5, 10, 15, 20>>

(* C9: scheduler B with valid parameters, fed only SAT or UNSAT, returns     *)
(* start, start+inc, start+2*inc, ... in increasing order, each once, up to  *)
(* the largest value <= limit, then None; 0, 5, 30, 5, gamma 0.5 gives       *)
(* 0,5,10,15,20,25,30.                                                       *)
C9_ConclusiveB ==
    (ValidB /\ stream = "conclusive") =>
        /\ \A k \in 1..Len(rets) :
              /\ k <= Count => rets[k] = start + ((k - 1) * inc)
              /\ k = Count + 1 => rets[k] = None
        /\ (TestB /\ gamma = <<1, 2>>) =>
              AgreesWith(<<0, 5, 10, 15, 20, 25, 30, None>>)

C9_Witness ==
    TestB /\ gamma = <<1, 2>> /\ stream = "conclusive" /\ result = "SAT"
    /\ rets = <<0, 5, 10, 15, 20, 25, 30, None>>

\* runs rs are the pending runs nr in their order, the head eligible, every
\* other run r eligible iff
\* r.effort < (head.effort+1) * gamma^(r.index-head.index) + 0.5
Admitted(rs, nr) ==
    /\ Len(rs) >= Len(nr)
    /\ \A k \in 1..Len(nr) :
          LET d == nr[k].index - nr[1].index
          IN  /\ rs[k].index = nr[k].index
              /\ rs[k].length = nr[k].length
              /\ rs[k].effort = nr[k].effort
              /\ rs[k].solve <=>
                    (k = 1 \/ 2 * nr[k].effort * Pow(gamma[2], d)
                                < (2 * (nr[1].effort + 1) * Pow(gamma[1], d))
                                  + Pow(gamma[2], d))

\* the call handles a result, after which the active queue is empty and
\* pending is not
Drains(m) == ~m.returns /\ m.runs = <<>> /\ m.next_runs # <<>>

----------------------------------------------------------------------------
(* Blocking and propagate_unsat *)

\* a next() call was made
Called == Len(rets') = Len(rets) + 1

\* every length in flight was tried and its most recent result is None
AllBlocked ==
    InFlight # {} /\ \A id \in InFlight : id \in DOMAIN last /\ last[id] = "NONE"

TestAlternatingA ==
    alg = "A" /\ start = 0 /\ inc = 1 /\ limit = 30 /\ size = 4
    /\ stream = "alternating"

TestAlternatingC ==
    alg = "C" /\ start = 0 /\ inc = <<3, 2>> /\ limit = 30
    /\ stream = "alternating"

(* C11: in each scheduler, the next(None) call after which the most recent   *)
(* result of every in-flight length is None returns None; under a steady     *)
(* None stream A returns each length of its initial window once and then     *)
(* None, B and C return start and then None.                                 *)
C11_AllBlockedTerminates ==
    /\ [][(ret # None /\ result' = "NONE" /\ Called /\ AllBlocked')
             => ret' = None]_vars
    /\ []((ValidA /\ stream = "none") =>
            \A k \in 1..Len(rets) :
                /\ k <= Min(size, Count) => rets[k] = start + ((k - 1) * inc)
                /\ k = Min(size, Count) + 1 => rets[k] = None)
    /\ []((stream = "none" /\ (ValidB \/ ValidC)) =>
            AgreesWith(<<start, None>>))

(* C12: with valid parameters, a next(None) call for a returned length       *)
(* returns None only if every in-flight length is blocked: no length in      *)
(* flight has a result other than None as its most recent result.            *)
C12_TerminalOnlyIfAllBlocked ==
    [][((ValidA \/ ValidB \/ ValidC) /\ ret # None /\ result' = "NONE"
          /\ Called /\ ret' = None)
         => \A id \in InFlight' \cap DOMAIN last' : last'[id] = "NONE"]_vars

----------------------------------------------------------------------------
(* Temporal formulas (src/telingo/theory.py): theory terms and Formula     *)
(* objects.  A literal is a non-zero integer, -l the complement of l; 0    *)
(* stands for None.  A Formula object is identified by the number it got   *)
(* when it was constructed.                                                *)

\* clingo theory terms
Sym(n) == [type |-> "Symbol", name |-> n, arguments |-> <<>>]
Fun(n, a) == [type |-> "Function", name |-> n, arguments |-> a]

binary_operators == {"&", "|", "<>", "<-", "->"}
unary_operators == {"~"}
tel_operators == {"<", ">", "<:", ">:", "<*", ">*", ">?", "<?", ">>", "<<"}

\* the fields of a Formula object; lhs, rhs (or arg) and future are objects,
\* 0 for None; flag is positive (Atom), value (BooleanConstant) or weak
Node(k, r, o, f, n, l, a) ==
    [kind |-> k, rep |-> r, op |-> o, flag |-> f, name |-> n, lhs |-> l,
     rhs |-> a, future |-> 0, arguments |-> <<>>]

\* ",".join(strings)
RECURSIVE Join(_)
Join(strings) ==
    IF strings = <<>> THEN ""
    ELSE IF Len(strings) = 1 THEN strings[1]
    ELSE strings[1] \o "," \o Join(Tail(strings))

\* name.startswith("'") and name.endswith("'") on the names of the programs
startswith_prime(name) == name \in {"'p"}
endswith_prime(name) == name \in {"p'"}

\* mutant: only a leading prime is rejected
Atom_raises_LeadingOnly(name) == startswith_prime(name)

\* Atom.__init__ raises for this name
Atom_raises(name) == startswith_prime(name) \/ endswith_prime(name)

\* the constructors, each building the representation of its formula
Atom(th, name, arguments, positive) ==
    [Node("Atom",
          "(" \o (IF positive THEN "" ELSE "-") \o name \o "("
              \o Join(arguments) \o "))",
          "", positive, name, 0, 0) EXCEPT !.arguments = arguments]

BooleanConstant(th, value) ==
    Node("BooleanConstant", IF value THEN "(&true)" ELSE "(&false)",
         "", value, "", 0, 0)

Negation(th, arg) ==
    Node("Negation", "(~" \o th.nodes[arg].rep \o ")", "", FALSE, "", 0, arg)

BooleanFormula(th, operator, lhs, rhs) ==
    Node("BooleanFormula",
         "(" \o th.nodes[lhs].rep \o operator \o th.nodes[rhs].rep \o ")",
         operator, FALSE, "", lhs, rhs)

Previous(th, arg, weak) ==
    Node("Previous", "(<" \o th.nodes[arg].rep \o ")", "", weak, "", 0, arg)

Initially(th, arg) ==
    Node("Initially", "(<<" \o th.nodes[arg].rep \o ")", "", FALSE, "", 0,
         arg)

NextFormula(th, arg, weak) ==
    Node("Next", "(>" \o th.nodes[arg].rep \o ")", "", weak, "", 0, arg)

TelFormulaP(th, o, lhs, rhs) ==
    Node("TelFormulaP",
         "(" \o (IF lhs = 0 THEN "" ELSE th.nodes[lhs].rep)
             \o (IF o = "Since" THEN "<?" ELSE "<*")
             \o th.nodes[rhs].rep \o ")",
         o, FALSE, "", lhs, rhs)

TelFormulaN(th, o, lhs, rhs) ==
    Node("TelFormulaN",
         "(" \o (IF lhs = 0 THEN "" ELSE th.nodes[lhs].rep)
             \o (IF o = "Since" THEN ">?" ELSE ">*")
             \o th.nodes[rhs].rep \o ")",
         o, FALSE, "", lhs, rhs)

\* the Theory object, its Formula objects and the program as one record,
\* with res the value returned by the last call and cur the running
\* Formula.translate call: <<formula, step, how many calls of it so far>>
TheoryState ==
    [created |-> created, formulas |-> formulas, nodes |-> nodes,
     data |-> data, todo |-> todo, todo_keys |-> todo_keys,
     false_literal |-> false_literal, atoms |-> atoms, rules |-> rules,
     externals |-> externals, symbols |-> symbols,
     theory_atoms |-> theory_atoms, raises |-> FALSE, res |-> 0,
     cur |-> <<0, 0, 0>>]

Raise(th) == [th EXCEPT !.raises = TRUE, !.res = 0]

\* the statements F after a call that left t: skipped when the call raised
Then(t, F(_)) == IF t.raises THEN t ELSE F(t)

\* mutant: the table is overwritten and the new object returned
add_formula_Overwrites(th, formula) ==
    LET id == th.created + 1
    IN  [th EXCEPT !.created = id,
                   !.formulas = (formula.rep :> id) @@ @,
                   !.nodes = (id :> formula) @@ @,
                   !.res = id]

\* Theory.add_formula for a newly constructed object: setdefault on _rep
add_formula(th, formula) ==
    LET id == th.created + 1
    IN  IF formula.rep \in DOMAIN th.formulas
        THEN [th EXCEPT !.created = id, !.res = th.formulas[formula.rep]]
        ELSE [th EXCEPT !.created = id,
                        !.formulas = (formula.rep :> id) @@ @,
                        !.nodes = (id :> formula) @@ @,
                        !.res = id]

set_future(th, formula, future) ==
    [th EXCEPT !.nodes[formula].future = future, !.res = formula]

\* theory.add_formula(Atom(name, arguments, positive))
add_Atom(th, name, arguments, positive) ==
    IF Atom_raises(name) THEN Raise(th)
    ELSE add_formula(th, Atom(th, name, arguments, positive))

\* create_symbol(rep) raises: an operator stands where a symbol is expected
RECURSIVE invalid_symbol(_)
invalid_symbol(rep) ==
    \/ rep.name \in binary_operators \cup unary_operators \cup tel_operators
    \/ \E i \in 1..Len(rep.arguments) : invalid_symbol(rep.arguments[i])

\* str(create_symbol(rep)) of a symbol or function term
RECURSIVE create_symbol(_)
create_symbol(rep) ==
    IF rep.arguments = <<>> THEN rep.name
    ELSE rep.name \o "("
         \o Join([i \in 1..Len(rep.arguments) |->
                     create_symbol(rep.arguments[i])])
         \o ")"

RECURSIVE create_atom(_, _, _)
create_atom(th, rep, positive) ==
    IF rep.type = "Symbol"
    THEN add_Atom(th, rep.name, <<>>, positive)
    ELSE IF rep.name = "-"
    THEN create_atom(th, rep.arguments[1], ~positive)
    ELSE IF rep.name \notin
                binary_operators \cup unary_operators \cup tel_operators
    THEN IF \E i \in 1..Len(rep.arguments) : invalid_symbol(rep.arguments[i])
         THEN Raise(th)
         ELSE add_Atom(th, rep.name,
                       [i \in 1..Len(rep.arguments) |->
                           create_symbol(rep.arguments[i])], positive)
    ELSE Raise(th)

RECURSIVE create_formula(_, _)
create_formula(th, rep) ==
    LET args == rep.arguments
        name == rep.name
        \* a TelFormulaN with its future Next(formula, weak)
        WithFuture(t3, weak) ==
            Then(add_formula(t3, NextFormula(t3, t3.res, weak)), LAMBDA t4 :
                set_future(t4, t3.res, t4.res))
    IN
    IF rep.type = "Symbol" THEN create_atom(th, rep, TRUE)
    ELSE IF name \in binary_operators /\ Len(args) = 2
    THEN Then(create_formula(th, args[1]), LAMBDA t1 :
         Then(create_formula(t1, args[2]), LAMBDA t2 :
             add_formula(t2, BooleanFormula(t2, name, t1.res, t2.res))))
    ELSE IF name \in unary_operators /\ Len(args) = 1
    THEN Then(create_formula(th, args[1]), LAMBDA t1 :
             add_formula(t1, Negation(t1, t1.res)))
    ELSE IF name \in tel_operators
    THEN Then(IF Len(args) = 1 THEN [th EXCEPT !.res = 0]
              ELSE create_formula(th, args[1]), LAMBDA t1 :
         Then(create_formula(t1, args[Len(args)]), LAMBDA t2 :
         LET lhs == t1.res
             rhs == t2.res
         IN
         IF name \in {"<", "<:"}
         THEN add_formula(t2, Previous(t2, rhs, name = "<:"))
         ELSE IF name = "<*"
         THEN add_formula(t2, TelFormulaP(t2, "Trigger", lhs, rhs))
         ELSE IF name = "<?"
         THEN add_formula(t2, TelFormulaP(t2, "Since", lhs, rhs))
         ELSE IF name = "<<"
         THEN add_formula(t2, Initially(t2, rhs))
         ELSE IF name \in {">", ">:"}
         THEN add_formula(t2, NextFormula(t2, rhs, name = ">:"))
         ELSE IF name = ">*"
         THEN WithFuture(add_formula(t2, TelFormulaN(t2, "Trigger", lhs, rhs)),
                         TRUE)
         ELSE IF name = ">?"
         THEN WithFuture(add_formula(t2, TelFormulaN(t2, "Since", lhs, rhs)),
                         FALSE)
         ELSE \* ">>"
              Then(add_Atom(t2, "__final", <<>>, TRUE), LAMBDA t3 :
              Then(add_formula(t3, Negation(t3, t3.res)), LAMBDA t4 :
              Then(add_formula(t4, BooleanFormula(t4, "|", t4.res, rhs)),
                   LAMBDA t5 :
                  WithFuture(add_formula(t5, TelFormulaN(t5, "Trigger", 0,
                                                         t5.res)), TRUE))))))
    ELSE IF name = "&"
    THEN LET arg == args[1]
         IN  IF arg.type = "Symbol"
             THEN IF arg.name \in {"initial", "final"}
                  THEN add_Atom(th, "__" \o arg.name, <<>>, TRUE)
                  ELSE IF arg.name \in {"true", "false"}
                  THEN add_formula(th, BooleanConstant(th, arg.name = "true"))
                  ELSE Raise(th)
             ELSE Raise(th)
    ELSE create_atom(th, rep, TRUE)

----------------------------------------------------------------------------
(* The backend and the translation of a formula at a step *)

\* backend.add_atom(): res is the new atom
add_atom(th) == [th EXCEPT !.atoms = @ + 1, !.res = th.atoms + 1]

\* backend.add_rule(head, body, choice); by records the call adding it
add_rule(th, head, body, choice) ==
    [th EXCEPT !.rules =
        Append(@, [head |-> head, body |-> body, choice |-> choice,
                   by |-> th.cur])]

\* backend.add_external(atom, value)
add_external(th, atom, value) ==
    [th EXCEPT !.externals = (atom :> value) @@ @]

\* clauses for a <-> b
make_equal(th, a, b) ==
    add_rule(add_rule(th, <<>>, <<a, -b>>, FALSE), <<>>, <<-a, b>>, FALSE)

\* clauses for e <-> a | b
make_disjunction(th, e, a, b) ==
    add_rule(add_rule(add_rule(th, <<>>, <<e, -a, -b>>, FALSE),
                      <<>>, <<-e, a>>, FALSE),
             <<>>, <<-e, b>>, FALSE)

\* Theory.false_literal(backend), reached through Context.false_literal
Context_false_literal(th) ==
    IF th.false_literal = 0
    THEN LET t == add_atom(th) IN [t EXCEPT !.false_literal = t.res]
    ELSE [th EXCEPT !.res = th.false_literal]

\* Theory.add_todo(key, formula, step)
add_todo(th, key, formula, step) ==
    IF <<step, key>> \in th.todo_keys THEN th
    ELSE [th EXCEPT !.todo_keys = @ \cup {<<step, key>>},
                    !.todo = Append(@, <<step, formula>>)]

\* a new StepData; calls counts the translate calls for it
StepData ==
    [literal |-> 0, literals |-> {}, todo |-> <<>>, done |-> TRUE,
     calls |-> 0]

\* self.__data.setdefault(step, StepData())
Data(th, formula, step) ==
    IF <<formula, step>> \in DOMAIN th.data THEN th.data[<<formula, step>>]
    ELSE StepData

SetData(th, formula, step, d) ==
    [th EXCEPT !.data = (<<formula, step>> :> d) @@ @]

\* data.literal = lit
SetLiteral(th, formula, step, lit) ==
    [SetData(th, formula, step, [Data(th, formula, step) EXCEPT !.literal = lit])
        EXCEPT !.res = lit]

MinOf(S) == CHOOSE m \in S : \A x \in S : m <= x

\* StepData.add_literal(backend)
add_literal(th, formula, step) ==
    LET d == Data(th, formula, step)
    IN  IF d.literals # {}
        THEN LET m == MinOf(d.literals)
             IN  [SetData(th, formula, step,
                          [d EXCEPT !.literal = m, !.literals = @ \ {m}])
                     EXCEPT !.res = m]
        ELSE LET t == add_atom(th)
             IN  [add_rule(SetData(t, formula, step,
                                   [d EXCEPT !.literal = t.res]),
                           <<t.res>>, <<>>, TRUE)
                     EXCEPT !.res = t.res]

\* Formula.add_atom(atom, step)
Formula_add_atom(th, formula, atom, step) ==
    LET d == Data(th, formula, step)
    IN  IF atom \in d.literals THEN SetData(th, formula, step, d)
        ELSE SetData(th, formula, step,
                     [d EXCEPT !.literals = @ \cup {atom},
                               !.todo = Append(@, atom)])

\* the rules BooleanFormula.do_translate adds for lit, lhs and rhs
BooleanRules(th, operator, lit, lhs, rhs) ==
    IF operator # "<>"
    THEN IF operator = "&" THEN make_disjunction(th, -lit, -lhs, -rhs)
         ELSE IF operator = "<-" THEN make_disjunction(th, lit, lhs, -rhs)
         ELSE IF operator = "->" THEN make_disjunction(th, lit, -lhs, rhs)
         ELSE make_disjunction(th, lit, lhs, rhs)
    ELSE add_rule(add_rule(add_rule(add_rule(th,
            <<>>, << lit,  rhs,  lhs>>, FALSE),
            <<>>, << lit, -rhs, -lhs>>, FALSE),
            <<>>, <<-lit,  rhs, -lhs>>, FALSE),
            <<>>, <<-lit, -rhs,  lhs>>, FALSE)

\* mutant: the second rule leaves pre out of its body
TelRules_DropsPre(th, o, lit0, lhs0, rhs0, pre0) ==
    LET trigger == o = "Trigger"
        lit == IF trigger THEN -lit0 ELSE lit0
        rhs == IF trigger THEN -rhs0 ELSE rhs0
        pre == IF trigger THEN -pre0 ELSE pre0
        lhs == IF trigger THEN -lhs0 ELSE lhs0
        t1 == add_rule(add_rule(th, <<>>, <<-lit, rhs>>, FALSE),
                       <<>>, <<-rhs, lit>>, FALSE)
    IN  IF lhs0 # 0
        THEN add_rule(add_rule(t1, <<>>, <<-lit, lhs, pre>>, FALSE),
                      <<>>, <<-rhs, -lhs, lit>>, FALSE)
        ELSE add_rule(t1, <<>>, <<-lit, pre>>, FALSE)

\* mutant: Trigger flips lit, rhs and pre but not lhs
TelRules_KeepsLhs(th, o, lit0, lhs0, rhs0, pre0) ==
    LET trigger == o = "Trigger"
        lit == IF trigger THEN -lit0 ELSE lit0
        rhs == IF trigger THEN -rhs0 ELSE rhs0
        pre == IF trigger THEN -pre0 ELSE pre0
        lhs == lhs0
        t1 == add_rule(add_rule(th, <<>>, <<-lit, rhs>>, FALSE),
                       <<>>, <<-rhs, -pre, lit>>, FALSE)
    IN  IF lhs0 # 0
        THEN add_rule(add_rule(t1, <<>>, <<-lit, lhs, pre>>, FALSE),
                      <<>>, <<-rhs, -lhs, lit>>, FALSE)
        ELSE add_rule(t1, <<>>, <<-lit, pre>>, FALSE)

\* the rules TelFormula._translate adds
TelRules(th, o, lit0, lhs0, rhs0, pre0) ==
    LET trigger == o = "Trigger"
        lit == IF trigger THEN -lit0 ELSE lit0
        rhs == IF trigger THEN -rhs0 ELSE rhs0
        pre == IF trigger THEN -pre0 ELSE pre0
        lhs == IF trigger THEN -lhs0 ELSE lhs0
        t1 == add_rule(add_rule(th, <<>>, <<-lit, rhs>>, FALSE),
                       <<>>, <<-rhs, -pre, lit>>, FALSE)
    IN  IF lhs0 # 0
        THEN add_rule(add_rule(t1, <<>>, <<-lit, lhs, pre>>, FALSE),
                      <<>>, <<-rhs, -lhs, lit>>, FALSE)
        ELSE add_rule(t1, <<>>, <<-lit, pre>>, FALSE)

RECURSIVE translate(_, _, _, _)

\* TelFormula._translate(ctx, step, data, pre)
TelFormula_translate(th, formula, step, h, pre) ==
    LET n == th.nodes[formula]
    IN  Then(IF n.lhs = 0 THEN [th EXCEPT !.res = 0]
             ELSE translate(th, n.lhs, step, h), LAMBDA t1 :
        Then(translate(t1, n.rhs, step, h), LAMBDA t2 :
        Then(add_literal(t2, formula, step), LAMBDA t3 :
            TelRules(t3, n.op, t3.res, t1.res, t2.res, pre))))

\* mutant: a resolved Next keeps the truth value it was given
Next_do_translate_StaysExternal(th, formula, step, h) ==
    LET n == th.nodes[formula]
        d == Data(th, formula, step)
    IN
    IF d.literal = 0
    THEN IF step \notin 0..h THEN Raise(th)
         ELSE IF step < h
         THEN Then(translate(th, n.rhs, step + 1, h), LAMBDA t1 :
                  SetData(t1, formula, step,
                          [Data(t1, formula, step) EXCEPT
                              !.literal = t1.res, !.done = TRUE]))
         ELSE Then(add_atom(th), LAMBDA t1 :
              Then(add_external(t1, t1.res,
                                IF n.flag THEN "True" ELSE "False"),
                   LAMBDA t2 :
              Then(add_todo(t2, <<"rep", n.rep>>, formula, step), LAMBDA t3 :
                  SetData(t3, formula, step,
                          [d EXCEPT !.literal = t1.res, !.done = FALSE]))))
    ELSE IF ~d.done
    THEN IF step \notin 0..h THEN Raise(th)
         ELSE IF step < h
         THEN Then(translate(th, n.rhs, step + 1, h), LAMBDA t1 :
              Then(make_equal(t1, d.literal, t1.res), LAMBDA t3 :
                  SetData(t3, formula, step,
                          [Data(t3, formula, step) EXCEPT !.done = TRUE])))
         ELSE th
    ELSE th

\* Next.do_translate(ctx, step, data)
Next_do_translate(th, formula, step, h) ==
    LET n == th.nodes[formula]
        d == Data(th, formula, step)
    IN
    IF d.literal = 0
    THEN IF step \notin 0..h THEN Raise(th)
         ELSE IF step < h
         THEN Then(translate(th, n.rhs, step + 1, h), LAMBDA t1 :
                  SetData(t1, formula, step,
                          [Data(t1, formula, step) EXCEPT
                              !.literal = t1.res, !.done = TRUE]))
         ELSE Then(add_atom(th), LAMBDA t1 :
              Then(add_external(t1, t1.res,
                                IF n.flag THEN "True" ELSE "False"),
                   LAMBDA t2 :
              Then(add_todo(t2, <<"rep", n.rep>>, formula, step), LAMBDA t3 :
                  SetData(t3, formula, step,
                          [d EXCEPT !.literal = t1.res, !.done = FALSE]))))
    ELSE IF ~d.done
    THEN IF step \notin 0..h THEN Raise(th)
         ELSE IF step < h
         THEN Then(translate(th, n.rhs, step + 1, h), LAMBDA t1 :
              Then(add_external(make_equal(t1, d.literal, t1.res),
                                d.literal, "Free"), LAMBDA t3 :
                  SetData(t3, formula, step,
                          [Data(t3, formula, step) EXCEPT !.done = TRUE])))
         ELSE th
    ELSE th

\* do_translate(ctx, step, data) of the other classes, entered with
\* data.literal None
do_translate(th, formula, step, h) ==
    LET n == th.nodes[formula]
        k == n.kind
        \* data.literal = the literal of the call, or its complement
        Literal(t1) == SetLiteral(t1, formula, step, t1.res)
        Complement(t1) == SetLiteral(t1, formula, step, -t1.res)
    IN
    IF k = "Initially"
    THEN Then(translate(th, n.rhs, 0, h), Literal)
    ELSE IF step \notin 0..h THEN Raise(th)
    ELSE IF k = "Atom"
    THEN IF n.arguments = <<>>
            /\ <<n.name, n.flag, step>> \in DOMAIN th.symbols
         THEN SetLiteral(th, formula, step,
                         th.symbols[<<n.name, n.flag, step>>])
         ELSE Then(Context_false_literal(th), Literal)
    ELSE IF k = "BooleanConstant"
    THEN IF n.flag THEN Then(Context_false_literal(th), Complement)
         ELSE Then(Context_false_literal(th), Literal)
    ELSE IF k = "Negation"
    THEN Then(translate(th, n.rhs, step, h), Complement)
    ELSE IF k = "BooleanFormula"
    THEN Then(translate(th, n.lhs, step, h), LAMBDA t1 :
         Then(translate(t1, n.rhs, step, h), LAMBDA t2 :
         Then(add_literal(t2, formula, step), LAMBDA t3 :
             BooleanRules(t3, n.op, t3.res, t1.res, t2.res))))
    ELSE IF k = "Previous"
    THEN IF step > 0
         THEN Then(translate(th, n.rhs, step - 1, h), Literal)
         ELSE IF n.flag THEN Then(Context_false_literal(th), Complement)
         ELSE Then(Context_false_literal(th), Literal)
    ELSE IF k = "TelFormulaP"
    THEN IF step = 0
         THEN Then(translate(th, n.rhs, step, h), Literal)
         ELSE Then(translate(th, formula, step - 1, h), LAMBDA t1 :
                  TelFormula_translate(t1, formula, step, h, t1.res))
    ELSE \* TelFormulaN
         Then(translate(th, n.future, step, h), LAMBDA t1 :
             TelFormula_translate(t1, formula, step, h, t1.res))

\* mutant: the todo atoms are unified on every call
translate_KeepsTodo(th, formula, step, h) ==
    LET d0 == Data(th, formula, step)
        t0 == [SetData(th, formula, step, [d0 EXCEPT !.calls = @ + 1])
                  EXCEPT !.cur = <<formula, step, d0.calls + 1>>]
    IN  Then(IF th.nodes[formula].kind = "Next"
             THEN Next_do_translate(t0, formula, step, h)
             ELSE IF Data(t0, formula, step).literal = 0
             THEN do_translate(t0, formula, step, h)
             ELSE t0, LAMBDA t1 :
        LET d == Data(t1, formula, step)
            RECURSIVE Unify(_, _)
            Unify(t, i) ==
                IF i > Len(d.todo) THEN t
                ELSE Unify(make_equal(t, d.todo[i], d.literal), i + 1)
        IN  [Unify(t1, 1)
                EXCEPT !.res = d.literal, !.cur = th.cur])

\* Formula.translate(ctx, step) with ctx.horizon = h: res is the literal
translate(th, formula, step, h) ==
    LET d0 == Data(th, formula, step)
        t0 == [SetData(th, formula, step, [d0 EXCEPT !.calls = @ + 1])
                  EXCEPT !.cur = <<formula, step, d0.calls + 1>>]
    IN  Then(IF th.nodes[formula].kind = "Next"
             THEN Next_do_translate(t0, formula, step, h)
             ELSE IF Data(t0, formula, step).literal = 0
             THEN do_translate(t0, formula, step, h)
             ELSE t0, LAMBDA t1 :
        LET d == Data(t1, formula, step)
            RECURSIVE Unify(_, _)
            Unify(t, i) ==
                IF i > Len(d.todo) THEN t
                ELSE Unify(make_equal(t, d.todo[i], d.literal), i + 1)
        IN  [SetData(Unify(t1, 1), formula, step, [d EXCEPT !.todo = <<>>])
                EXCEPT !.res = d.literal, !.cur = th.cur])

\* the first loop of Theory.translate: the &tel atoms from position i on
RECURSIVE Elaborate(_, _)
Elaborate(th, i) ==
    IF i > Len(th.theory_atoms) \/ th.raises THEN th
    ELSE LET atom == th.theory_atoms[i]
         IN  Then(create_formula(th, atom.term), LAMBDA t1 :
             Then(Formula_add_atom(t1, t1.res, atom.literal, atom.step),
                  LAMBDA t2 :
                 Elaborate(add_todo(t2, <<"term", atom.term>>, t1.res,
                                    atom.step), i + 1)))

\* the second loop of Theory.translate over the list it took from __todo
RECURSIVE TranslateAll(_, _, _, _)
TranslateAll(th, list, i, h) ==
    IF i > Len(list) \/ th.raises THEN th
    ELSE TranslateAll(translate(th, list[i][2], list[i][1], h), list, i + 1, h)

\* Theory.translate(horizon, prg)
Theory_translate(th, h) ==
    Then(Elaborate(th, 1), LAMBDA t1 :
        IF Len(t1.todo) = 0 THEN t1
        ELSE TranslateAll([t1 EXCEPT !.todo = <<>>, !.todo_keys = {}],
                          t1.todo, 1, h))

----------------------------------------------------------------------------
(* The incremental loop on one program and one Theory object *)

MaxHorizon == 2     \* the largest horizon a program is grounded to

\* temporal formulas over the atoms p (grounded at every step) and q (never
\* grounded), as theory terms
P == Sym("p")
Q == Sym("q")

\* an atom with an argument, and the formulas create_formula rejects: primed
\* names, an operator in the place of a symbol or with the wrong number of
\* arguments, an unknown identifier after &
WithArgument == Fun("p", <<Sym("a")>>)
Malformed ==
    {Sym("'p"), Fun("&", <<P, Sym("p'")>>), Fun("p", <<Sym("~")>>),
     Fun("~", <<P, Q>>), Fun("&", <<Sym("foo")>>)}

Terms ==
    {WithArgument} \cup
    {P, Q, Fun("-", <<Fun("-", <<P>>)>>),
     Fun("~", <<P>>), Fun("&", <<P, Q>>), Fun("|", <<P, Q>>),
     Fun("<>", <<P, Q>>), Fun("<-", <<P, Q>>), Fun("->", <<P, Q>>),
     Fun("&", <<Sym("true")>>), Fun("&", <<Sym("final")>>),
     Fun("<", <<P>>), Fun("<:", <<P>>), Fun("<<", <<P>>),
     Fun("<?", <<P, Q>>), Fun("<*", <<P>>),
     Fun(">", <<P>>), Fun(">:", <<P>>), Fun(">", <<Fun(">", <<P>>)>>),
     Fun("&", <<Fun(">", <<P>>), P>>), Fun("~", <<Fun(">:", <<P>>)>>),
     Fun(">?", <<P>>), Fun(">*", <<P, Q>>), Fun(">>", <<P>>),
     Fun("<?", <<P>>), Fun("<*", <<Q, P>>),
     Fun(">?", <<Q, P>>), Fun(">*", <<P>>)}
    \cup Malformed


\* a temporal rule: its formula and the program part it stands in; the &tel
\* atom of step t is grounded with step t ("always", "initial" for t = 0) or
\* one iteration later ("late": a part grounded backwards)
Parts == {"initial", "always", "late"}
Rules == [term : Terms, part : Parts]

\* programs of at most two temporal rules
Programs ==
    {<<>>} \cup {<<r>> : r \in Rules}
    \cup {rs \in Rules \X Rules : rs[1] # rs[2]}

TheoryInit ==
    /\ program \in Programs
    /\ NoTheory
    /\ NoScheduler
    /\ ConfigIdle
    /\ SolveIdle

\* the atoms p(t), __final(t) and __initial(0) exist once step t is grounded
GroundedNames(t) ==
    IF t = 0 THEN <<"__initial", "__final", "p">> ELSE <<"__final", "p">>

\* the &tel atoms grounded in the iteration that reaches step t
GroundedRules(t) ==
    SelectSeq(program, LAMBDA r :
        \/ r.part = "always"
        \/ r.part = "initial" /\ t = 0
        \/ r.part = "late" /\ t > 0)

\* prg.ground(parts) for the steps t..to
RECURSIVE Ground(_, _, _)
Ground(g, t, to) ==
    IF t > to THEN g
    ELSE LET names == GroundedNames(t)
             new == GroundedRules(t)
             base == g.atoms + Len(names)
             g1 == [g EXCEPT
                    !.symbols =
                        [k \in {<<names[i], TRUE, t>> : i \in 1..Len(names)}
                            |-> g.atoms
                                + (CHOOSE i \in 1..Len(names) : names[i] = k[1])]
                        @@ @,
                    !.theory_atoms =
                        @ \o
                        [i \in 1..Len(new) |->
                            [term |-> new[i].term,
                             step |-> IF new[i].part = "late" THEN t - 1 ELSE t,
                             literal |-> base + i]],
                    !.atoms = base + Len(new)]
         IN  Ground(g1, t + 1, to)

\* the Theory object, its Formula objects and the program after a call
Store(th) ==
    /\ symbols' = th.symbols
    /\ theory_atoms' = th.theory_atoms
    /\ created' = th.created
    /\ formulas' = th.formulas
    /\ nodes' = th.nodes
    /\ data' = th.data
    /\ todo' = th.todo
    /\ todo_keys' = th.todo_keys
    /\ false_literal' = th.false_literal
    /\ atoms' = th.atoms
    /\ rules' = th.rules
    /\ externals' = th.externals
    /\ raises' = th.raises

\* one iteration of imain on its Theory object f: ground the steps up to h,
\* then f.translate(h, prg); Theory.translate takes any horizon, and when
\* one is skipped the steps between are grounded as Solver.solve grounds them
Iterate ==
    \E h \in {horizon + 1, horizon + 2} :
        /\ h <= MaxHorizon
        /\ ~raises
        /\ Store(Theory_translate(Ground(TheoryState, horizon + 1, h), h))
        /\ horizon' = h
        /\ UNCHANGED <<program, schedulerVars, configVars, solveVars>>

TheoryNext == Iterate

TheorySpec == TheoryInit /\ [][TheoryNext]_vars

----------------------------------------------------------------------------
(* Interning, translation and the Boolean encoding *)

\* the children of a Formula object
Children(n) == {n.lhs, n.rhs, n.future} \ {0}

\* the literals of the grounded &tel atoms
TheoryLiterals == {theory_atoms[i].literal : i \in 1..Len(theory_atoms)}

\* the (object, step) pairs that have a literal
Translated == {k \in DOMAIN data : data[k].literal # 0}

\* the rules added by the n-th translate call of formula at step, in order
RulesBy(formula, step, n) ==
    SelectSeq(rules, LAMBDA r : r.by = <<formula, step, n>>)

\* the rules added by later translate calls
LaterRules == SelectSeq(rules, LAMBDA r : r.by[3] > 1)

\* r is one clause of the pair unifying a with b
EqualityClause(r, a, b) ==
    r.head = <<>> /\ ~r.choice /\ r.body \in {<<a, -b>>, <<-a, b>>}

\* r unifies a literal of a &tel atom with the literal of the pair r.by
AliasClause(r) ==
    LET d == data[<<r.by[1], r.by[2]>>]
    IN  \E a \in TheoryLiterals \cap (d.literals \cup {d.literal}) :
            EqualityClause(r, a, d.literal)

\* r unifies the placeholder of a Next with its child's literal at step+1
ResolutionClause(r) ==
    LET n == nodes[r.by[1]]
        d == data[<<r.by[1], r.by[2]>>]
    IN  /\ n.kind = "Next"
        /\ <<n.rhs, r.by[2] + 1>> \in Translated
        /\ EqualityClause(r, d.literal, data[<<n.rhs, r.by[2] + 1>>].literal)

(* C17: two formulas with equal representation are mapped to the same      *)
(* object, the first one inserted: the table never replaces an object, all  *)
(* children, per-step data and rules belong to objects of the table, and    *)
(* no representation has two objects.                                       *)
C17_Interning ==
    /\ [](\A r \in DOMAIN formulas :
            /\ formulas[r] \in DOMAIN nodes
            /\ nodes[formulas[r]].rep = r)
    /\ [](\A f \in DOMAIN nodes :
            /\ formulas[nodes[f].rep] = f
            /\ Children(nodes[f]) \subseteq DOMAIN nodes)
    /\ [](\A k \in DOMAIN data : k[1] \in DOMAIN nodes)
    /\ [](\A i \in 1..Len(rules) : rules[i].by[1] \in DOMAIN nodes)
    /\ [][\A r \in DOMAIN formulas : formulas'[r] = formulas[r]]_vars

\* an object was constructed and dropped for an equal one, and two formulas
\* share a sub-formula
C17_Witness ==
    /\ created > Cardinality(DOMAIN formulas)
    /\ \E f, g \in DOMAIN nodes :
          f # g /\ nodes[f].kind = "BooleanFormula"
          /\ nodes[g].kind = "BooleanFormula" /\ nodes[f].lhs = nodes[g].lhs
    /\ horizon = 1

ChildLiteral(k) ==
    IF <<nodes[k[1]].rhs, k[2] + 1>> \in Translated
    THEN data[<<nodes[k[1]].rhs, k[2] + 1>>].literal ELSE 0

\* the Next objects at the steps where they got a placeholder atom of their
\* own (a Next translated below the horizon takes its child's literal)
Placeholders ==
    {k \in Translated :
        /\ nodes[k[1]].kind = "Next"
        /\ data[k].literal \in DOMAIN externals
        /\ data[k].literal # ChildLiteral(k)}

Pending == {k \in Placeholders : ~data[k].done}

\* how often the clause with this body was added
Times(body) == Len(SelectSeq(rules, LAMBDA r : r.head = <<>> /\ r.body = body))

(* C19: a Next translated at step = horizon holds a new atom that is        *)
(* external with value true if the Next is weak and false otherwise, and    *)
(* is in the todo list; it is pending only while its step is the horizon;   *)
(* the translate call with a larger horizon that returns adds the equality  *)
(* pair with the child's literal at step+1 exactly once and frees the       *)
(* external.                                                                *)
C19_NextResolution ==
    /\ [](\A k \in Pending :
            /\ ~raises => k[2] = horizon
            /\ externals[data[k].literal] =
                  (IF nodes[k[1]].flag THEN "True" ELSE "False")
            /\ \E i \in 1..Len(todo) : todo[i] = <<k[2], k[1]>>
            /\ data[k].literal \notin TheoryLiterals
            /\ \A s \in DOMAIN symbols : symbols[s] # data[k].literal
            /\ \A j \in Pending : data[j].literal = data[k].literal => j = k)
    /\ [](\A k \in Placeholders \ Pending :
            /\ k[2] < horizon
            /\ externals[data[k].literal] = "Free"
            /\ ChildLiteral(k) # 0
            /\ LET l == data[k].literal
                   c == ChildLiteral(k)
               IN  Times(<<l, -c>>) = 1 /\ Times(<<-l, c>>) = 1)
    /\ [](\A k \in Translated :
            (nodes[k[1]].kind = "Next" /\ k \notin Placeholders) =>
                k[2] < horizon /\ data[k].done)
    /\ [][\A k \in Pending :
             horizon' > horizon /\ ~raises' => k \in Placeholders' \ Pending']_vars

\* one placeholder is resolved and the Next is pending at the new horizon
C19_Witness ==
    /\ horizon = 2
    /\ \E k \in Pending : nodes[k[1]].flag
    /\ \E k \in Placeholders \ Pending : k[2] = 1

\* the truth value of literal l under the assignment v to the atoms
Holds(v, l) == IF l > 0 THEN v[l] ELSE ~v[-l]

\* a rule with an empty head excludes the assignments making its body true
Satisfied(v, r) == \E i \in 1..Len(r.body) : ~Holds(v, r.body[i])

Operation(o, x, y) ==
    CASE o = "&" -> x /\ y
      [] o = "|" -> x \/ y
      [] o = "<>" -> x <=> y
      [] o = "<-" -> x \/ ~y
      [] o = "->" -> ~x \/ y

\* the rules with empty head added by the first translate call of k
Encoding(k) ==
    SelectSeq(RulesBy(k[1], k[2], 1), LAMBDA r : r.head = <<>>)

(* C20: for every Boolean formula with literal L and operand literals lhs   *)
(* and rhs, And, Or and the implications add 3 rules and Eq adds 4 (the     *)
(* rules after them unify theory atoms), and an assignment satisfies all    *)
(* of them exactly when L <-> (lhs op rhs).                                 *)
C20_BooleanEncoding ==
    \A k \in Translated :
        nodes[k[1]].kind = "BooleanFormula" =>
            LET n == nodes[k[1]]
                L == data[k].literal
                lhs == data[<<n.lhs, k[2]>>].literal
                rhs == data[<<n.rhs, k[2]>>].literal
                number == IF n.op = "<>" THEN 4 ELSE 3
                enc == Encoding(k)
            IN  /\ Len(enc) >= number
                /\ \A i \in (number + 1)..Len(enc) : AliasClause(enc[i])
                /\ \A v \in [{Abs(L), Abs(lhs), Abs(rhs)} -> BOOLEAN] :
                      (\A i \in 1..number : Satisfied(v, enc[i]))
                      <=> (Holds(v, L)
                           <=> Operation(n.op, Holds(v, lhs), Holds(v, rhs)))

----------------------------------------------------------------------------
(* Malformed formulas *)

\* the names with a leading or a trailing prime
PrimedNames == {"'p", "p'"}

OperatorNames == binary_operators \cup unary_operators \cup tel_operators

\* an operator name occurs in the term
RECURSIVE HasOperator(_)
HasOperator(rep) ==
    \/ rep.name \in OperatorNames
    \/ \E i \in 1..Len(rep.arguments) : HasOperator(rep.arguments[i])

\* the term is read as an atom: a symbol, or a function that is no operator
IsAtomTerm(rep) ==
    rep.type = "Symbol" \/ rep.name \notin OperatorNames \cup {"-"}

\* the term is the unary & with an identifier
IsIdentifier(rep) ==
    rep.type = "Function" /\ rep.name = "&" /\ Len(rep.arguments) = 1

\* the sub-terms of a term that are read as formulas
RECURSIVE Subformulas(_)
Subformulas(rep) ==
    {rep} \cup
    IF IsAtomTerm(rep) \/ IsIdentifier(rep) THEN {}
    ELSE UNION {Subformulas(rep.arguments[i]) : i \in 1..Len(rep.arguments)}

\* an atom with a primed name, an atom with an operator among its
\* arguments, or an unknown identifier after &
MalformedTerm(rep) ==
    \/ IsAtomTerm(rep) /\ rep.name \in PrimedNames
    \/ /\ IsAtomTerm(rep)
       /\ \E i \in 1..Len(rep.arguments) : HasOperator(rep.arguments[i])
    \/ /\ IsIdentifier(rep)
       /\ rep.arguments[1].name \notin {"initial", "final", "true", "false"}

\* a grounded theory atom holds a malformed formula
MalformedGrounded ==
    \E i \in 1..Len(theory_atoms) :
        \E rep \in Subformulas(theory_atoms[i].term) : MalformedTerm(rep)

(* C21: a grounded theory atom holding an atom with a primed name, an atom   *)
(* with an operator among its arguments or an unknown identifier after &     *)
(* makes Theory.translate raise; the raising call adds no rule and no        *)
(* external and no atom beyond those of the grounding before it; no atom     *)
(* with a primed name or an operator argument is interned.                   *)
C21_MalformedRaises ==
    /\ [](MalformedGrounded => raises)
    /\ [][raises' =>
            /\ rules' = rules
            /\ externals' = externals
            /\ atoms' - atoms =
                  (Len(theory_atoms') - Len(theory_atoms))
                  + (Cardinality(DOMAIN symbols')
                     - Cardinality(DOMAIN symbols))]_vars
    /\ [](\A f \in DOMAIN nodes :
            nodes[f].kind = "Atom" =>
                /\ nodes[f].name \notin PrimedNames
                /\ \A i \in 1..Len(nodes[f].arguments) :
                       nodes[f].arguments[i] \notin OperatorNames)

\* a later call raises on a malformed formula after an earlier call has
\* encoded a well-formed one
C21_Witness ==
    /\ raises
    /\ MalformedGrounded
    /\ horizon >= 1
    /\ rules # <<>>
    /\ formulas # <<>>

----------------------------------------------------------------------------
(* The scheduled solve loop smain with the Solver and the A_Scheduler of     *)
(* src/telingo/__init__.py.  The theory variables hold the program and the  *)
(* Theory object that made the last translate call; the Formula objects of  *)
(* earlier Theory objects stay in nodes and data.                            *)

MaxLength == 6      \* the largest limit given to the scheduler
MaxSolves == 4      \* Solver.solve calls explored in one session
MaxDirect == 3      \* largest length asked of a Solver driven directly

\* the size of the scheduler A when no selector is set
smain_size == 5

\* A_Scheduler.__init__ with the scheduler options o and the size sz
A_Scheduler(o, sz) ==
    [length |-> o.start, inc |-> o.inc, limit |-> o.limit, size |-> sz,
     propagate_unsat |-> o.propagate_unsat, runs |-> <<>>, first |-> TRUE,
     nones |-> {}]

\* the end of A_Scheduler.next: the head of the runs, None when there is none
A_Scheduler_return(s) ==
    [self |-> s, res |-> IF Len(s.runs) > 0 THEN s.runs[1] ELSE None]

\* A_Scheduler.next(result): self is the object after the call, res the
\* returned length
A_Scheduler_next(s, res) ==
    IF s.first
    THEN LET w == SelectSeq([i \in 1..s.size |-> s.length + ((i - 1) * s.inc)],
                            LAMBDA x : x <= s.limit)
         IN  A_Scheduler_return(
                 [s EXCEPT !.first = FALSE, !.runs = w, !.nones = {},
                           !.length = IF Len(w) > 0 THEN w[Len(w)] ELSE @])
    ELSE IF res = "NONE"
    THEN LET current_length == s.runs[1]
             blocked == s.nones \cup {current_length}
         IN  IF Cardinality(blocked) = Len(s.runs)
             THEN [self |-> [s EXCEPT !.nones = blocked], res |-> None]
             ELSE A_Scheduler_return(
                      [s EXCEPT !.nones = blocked,
                                !.runs = Tail(Append(@, current_length))])
    ELSE LET current_length == s.runs[1]
             blocked == s.nones \ {current_length}
             kept == IF s.propagate_unsat
                     THEN SelectSeq(s.runs, LAMBDA i : i >= current_length)
                     ELSE s.runs
             next_length == s.length + s.inc
         IN  IF res = "UNKNOWN"
             THEN A_Scheduler_return(
                      [s EXCEPT !.nones = blocked,
                                !.runs = Tail(Append(@, current_length))])
             ELSE IF next_length <= s.limit /\ blocked = {}
             THEN A_Scheduler_return(
                      [s EXCEPT !.nones = blocked, !.length = next_length,
                                !.runs = Tail(Append(kept, next_length))])
             ELSE A_Scheduler_return(
                      [s EXCEPT !.nones = blocked, !.runs = Tail(kept)])

\* the scheduler smain constructs: A with the size of the selector A, or
\* with size 5 when no selector is set
smain_scheduler(o) ==
    A_Scheduler(o, IF o.A # 0 THEN o.A ELSE smain_size)

\* the variables a translate call assigns
translated == <<horizon, theory_atoms, symbols, created, formulas, nodes,
                data, todo, todo_keys, false_literal, atoms, rules,
                externals, raises>>

\* f = Theory(): a new Theory object next to the Formula objects and the
\* program that exist
Theory == [TheoryState EXCEPT !.formulas = <<>>, !.todo = <<>>,
                              !.todo_keys = {}, !.false_literal = 0]

\* the atoms of the signatures in future_sigs with a time after step, as
\* the assumptions imain passes to prg.solve
imain_assumptions(future_sigs, step) ==
    {-symbols[k] : k \in {j \in DOMAIN symbols :
                             j[1] \in future_sigs /\ j[3] > step}}

\* the skip externals of the steps up to grounded, as the program part
\* dynamic declares them
declared(grounded) ==
    [i \in 1..grounded |->
        IF i \in DOMAIN ctl.skip THEN ctl.skip[i] ELSE "False"]

\* mutant: the steps up to the length are never unblocked
toggle_BlocksOnly(l, grounded) ==
    [i \in 1..grounded |->
        IF l < solver.last_length /\ i \in (l + 1)..solver.last_length
        THEN "True"
        ELSE declared(grounded)[i]]

\* blocking or unblocking actions: the skip externals between the last
\* length and this one are set
toggle(l, grounded) ==
    [i \in 1..grounded |->
        IF l < solver.last_length /\ i \in (l + 1)..solver.last_length
        THEN "True"
        ELSE IF solver.last_length < l
                /\ i \in (solver.last_length + 1)..l
        THEN "False"
        ELSE declared(grounded)[i]]

\* the body of Solver.solve(length, ...) where ctl.solve returns r
Solver_solve(l, r) ==
    LET grounds == solver.length < l
        t == Theory_translate(Ground(Theory, solver.length + 1, l), l)
        grounded == IF grounds THEN l ELSE solver.length
        released == IF l > 0
                    THEN [ctl.final EXCEPT ![solver.length] = "Released"]
                    ELSE ctl.final
        final == IF grounds
                 THEN [i \in 0..l |->
                          IF i = l THEN "True"
                          ELSE IF i > solver.length THEN "False"
                          ELSE released[i]]
                 ELSE ctl.final
    IN  IF grounds /\ t.raises
        THEN /\ Store(t)
             /\ horizon' = l
             /\ ctl' = [ctl EXCEPT
                           !.final = [i \in 0..l |->
                                         IF i > solver.length THEN "False"
                                         ELSE released[i]],
                           !.skip = declared(l),
                           !.theories = @ + 1,
                           !.translates =
                               Append(@, [f |-> ctl.theories + 1,
                                          horizon |-> l])]
             /\ UNCHANGED solver
        ELSE /\ IF grounds THEN Store(t) /\ horizon' = l
                ELSE UNCHANGED translated
             /\ solver' = [length |-> grounded, last_length |-> l]
             /\ ctl' = [final |-> final,
                        skip |-> toggle(l, grounded),
                        requested |-> ctl.requested \cup {l},
                        solve |-> [length |-> l, assumptions |-> {},
                                   result |-> r],
                        solved |-> ctl.solved + 1,
                        theories |-> ctl.theories + 1,
                        translates |->
                            IF grounds
                            THEN Append(ctl.translates,
                                        [f |-> ctl.theories + 1,
                                         horizon |-> l])
                            ELSE ctl.translates]

\* the test of the while loop of smain
smain_continues ==
    LET a == smain_args
    IN  /\ a.imax = None \/ frame.step < a.imax
        /\ \/ frame.step = 0
           \/ frame.step < a.imin
           \/ a.istop = "SAT" /\ frame.ret # "SAT"
           \/ a.istop = "UNSAT" /\ frame.ret # "UNSAT"
           \/ a.istop = "UNKNOWN" /\ frame.ret # "UNKNOWN"

\* smain up to its loop: ground step 0, translate it with the Theory object
\* f, set __final(0), construct the Solver and the scheduler
smain_start ==
    /\ frame.pc = "start"
    /\ LET t == Theory_translate(Ground(Theory, 0, 0), 0)
       IN  /\ Store(t)
           /\ horizon' = 0
           /\ ctl' = [ctl EXCEPT
                         !.final = IF t.raises THEN (0 :> "False")
                                   ELSE (0 :> "True"),
                         !.theories = 1,
                         !.translates = <<[f |-> 1, horizon |-> 0]>>]
           /\ frame' = [frame EXCEPT
                           !.pc = IF t.raises THEN "raised" ELSE "loop"]
           /\ IF t.raises THEN UNCHANGED <<solver, scheduler>>
              ELSE /\ solver' = [length |-> 0, last_length |-> 0]
                   /\ scheduler' = IF frame.direct THEN scheduler
                                   ELSE smain_scheduler(
                                            smain_args.scheduler_options)
    /\ UNCHANGED <<program, smain_args, schedulerVars, configVars>>

\* the head of one iteration of smain where res is passed to the scheduler:
\* length = scheduler.next(res), and the end of the loop when there is no
\* length
smain_iteration(res) ==
    /\ frame.pc = "loop"
    /\ ~frame.direct
    /\ smain_continues
    /\ LET n == A_Scheduler_next(scheduler, res)
       IN  /\ scheduler' = n.self
           /\ frame' = [frame EXCEPT
                           !.pc = IF n.res = None THEN "done" ELSE "solve",
                           !.length = n.res,
                           !.next = [result |-> res, length |-> n.res],
                           !.nexts = @ + 1,
                           !.written = IF n.res = None
                                       THEN Append(@, "PLAN NOT FOUND")
                                       ELSE @]
    /\ UNCHANGED <<smain_args, solver, ctl, schedulerVars, configVars,
                   theoryVars>>

\* mutant: the scheduler is never told the result of the solve call
smain_next_ForgetsResult == smain_iteration("NONE")

\* length = scheduler.next(ret)
smain_next == smain_iteration(frame.ret)

\* the rest of the iteration: ret = solver.solve(length, ...), the end of
\* the loop on a satisfiable result, else step += inc
smain_solve ==
    /\ frame.pc = "solve"
    /\ ctl.solved < MaxSolves
    /\ \E r \in {"SAT", "UNSAT", "UNKNOWN"} :
          /\ Solver_solve(frame.length, r)
          /\ frame' =
                IF raises'
                THEN [frame EXCEPT !.pc = "raised"]
                ELSE IF r = "SAT"
                THEN [frame EXCEPT !.pc = "done", !.ret = r,
                                   !.models = Append(@, frame.length)]
                ELSE [frame EXCEPT
                         !.pc = "loop", !.ret = r,
                         !.step = @ + smain_args.scheduler_options.inc]
    /\ UNCHANGED <<program, smain_args, scheduler, schedulerVars, configVars>>

\* the loop test fails: smain returns
smain_return ==
    /\ frame.pc = "loop"
    /\ ~frame.direct
    /\ ~smain_continues
    /\ frame' = [frame EXCEPT !.pc = "done"]
    /\ UNCHANGED <<smain_args, scheduler, solver, ctl, schedulerVars,
                   configVars, theoryVars>>

\* a Solver driven without a scheduler: solve is asked for any length
solve ==
    /\ frame.pc = "loop"
    /\ frame.direct
    /\ ctl.solved < MaxSolves
    /\ \E l \in 0..MaxDirect, r \in {"SAT", "UNSAT", "UNKNOWN"} :
          /\ Solver_solve(l, r)
          /\ frame' = [frame EXCEPT
                          !.pc = IF raises' THEN "raised" ELSE "loop",
                          !.length = l,
                          !.ret = IF raises' THEN @ ELSE r,
                          !.models = IF r = "SAT" /\ ~raises'
                                     THEN Append(@, l) ELSE @]
    /\ UNCHANGED <<program, smain_args, scheduler, schedulerVars, configVars>>

\* the options of Application.__init__ the model varies, with the
\* move_final attribute of Scheduler_Config
scheduler_options ==
    [start : {0, 1}, inc : {1, 3}, limit : {2, MaxLength}, A : {0, 1, 2},
     propagate_unsat : BOOLEAN, move_final : BOOLEAN]

\* the arguments of smain
SolveArguments ==
    [future_sigs : {{}, {"p"}},
     imin : {0, 3}, imax : {None, 20}, istop : {"SAT", "UNSAT"},
     scheduler_options : scheduler_options]

\* the arguments Application.main passes by default
DefaultArguments ==
    [future_sigs |-> {"p"}, imin |-> 0, imax |-> None, istop |-> "SAT",
     scheduler_options |->
         [start |-> 0, inc |-> 5, limit |-> 3000, A |-> 0,
          propagate_unsat |-> TRUE, move_final |-> TRUE]]

\* the program p. without temporal formulas, programs with one temporal
\* rule, and programs with a malformed rule
SolvePrograms ==
    {<<>>,
     <<[term |-> Fun(">", <<P>>), part |-> "initial"]>>,
     <<[term |-> Fun(">:", <<P>>), part |-> "always"]>>,
     <<[term |-> Fun(">*", <<P, Q>>), part |-> "late"]>>,
     <<[term |-> Sym("'p"), part |-> "late"]>>,
     <<[term |-> Sym("'p"), part |-> "initial"]>>}

SolveInit ==
    /\ NoScheduler
    /\ ConfigIdle
    /\ NoTheory
    /\ program \in SolvePrograms
    /\ scheduler = <<>>
    /\ solver = <<>>
    /\ ctl = [final |-> <<>>, skip |-> <<>>, requested |-> {},
              solve |-> <<>>, solved |-> 0, theories |-> 0,
              translates |-> <<>>]
    /\ \E direct \in BOOLEAN :
          /\ IF direct THEN smain_args = DefaultArguments
             ELSE smain_args \in SolveArguments
          /\ frame = [pc |-> "start", direct |-> direct, step |-> 0,
                      ret |-> "NONE", length |-> None, next |-> <<>>,
                      nexts |-> 0, written |-> <<>>, models |-> <<>>]

SolveNext == smain_start \/ smain_next \/ smain_solve \/ smain_return \/ solve

SolveSpec == SolveInit /\ [][SolveNext]_vars

----------------------------------------------------------------------------
(* The Solver: grounded length, skip and __final externals *)

\* the largest element of a non-empty set of integers
Largest(S) == CHOOSE x \in S : \A y \in S : y <= x

\* a Solver.solve call has returned and none has raised
Solved == ctl.solved > 0 /\ frame.pc # "raised"

\* this step is one in which a Solver.solve call returns
Solves == ctl'.solved = ctl.solved + 1

(* C22: the grounded length of the Solver never decreases and is the         *)
(* largest length requested so far; a request not above it grounds nothing   *)
(* and releases nothing; after a call with length n the skip external of     *)
(* every grounded step t >= 1 is true exactly when t > n.                    *)
C22_GroundedLength ==
    /\ [](Solved =>
            /\ solver.length = Largest(ctl.requested \cup {0})
            /\ horizon = solver.length
            /\ DOMAIN ctl.skip = 1..solver.length
            /\ \A t \in 1..solver.length :
                   ctl.skip[t] = "True" <=> t > ctl.solve.length)
    /\ [][Solves =>
            /\ solver'.length >= solver.length
            /\ ctl'.solve.length <= solver.length =>
                  /\ UNCHANGED <<horizon, atoms, theory_atoms, symbols,
                                 rules, externals>>
                  /\ ctl'.final = ctl.final
                  /\ DOMAIN ctl'.skip = DOMAIN declared(solver.length)]_vars

\* a shorter length is solved after a longer one: a band of steps is blocked
C22_Witness ==
    /\ Solved
    /\ ctl.solved >= 3
    /\ 1 <= ctl.solve.length
    /\ ctl.solve.length < solver.length
    /\ ctl.skip[solver.length] = "True"
    /\ ctl.skip[1] = "False"

\* the steps whose __final external is true
FinalAt == {t \in DOMAIN ctl.final : ctl.final[t] = "True"}

(* C23: after every solve iteration exactly one __final external is true;   *)
(* with move_final set it is the one of the length just attempted, with     *)
(* move_final unset the one of the highest length grounded so far.          *)
C23_FinalMarker ==
    (Solved /\ ~frame.direct) =>
        FinalAt = {IF smain_args.scheduler_options.move_final
                   THEN ctl.solve.length
                   ELSE solver.length}

----------------------------------------------------------------------------
(* The scheduled solve loop *)

(* C24: every solve call of smain is made under the assumptions that set to  *)
(* false every atom of a future signature whose time is greater than the    *)
(* length attempted, as imain does for its step.                             *)
C24_FutureAssumptions ==
    (Solved /\ ~frame.direct) =>
        ctl.solve.assumptions =
            imain_assumptions(smain_args.future_sigs, ctl.solve.length)

\* this step is one in which scheduler.next returns
Asks == frame'.nexts = frame.nexts + 1

\* scheduler.next has returned None
Terminal == frame.next # <<>> /\ frame.next.length = None

(* C25: smain calls Solver.solve only with the length the preceding         *)
(* scheduler.next call returned; every next call gets the result of the     *)
(* preceding solve call, the first one None; after next has returned None   *)
(* "PLAN NOT FOUND" is written and nothing is grounded, translated or       *)
(* solved any more.                                                          *)
C25_LoopProtocol ==
    /\ [][(Solves /\ ~frame.direct) =>
            /\ frame.pc = "solve"
            /\ frame.next.length # None
            /\ ctl'.solve.length = frame.next.length
            /\ ctl.solved + 1 = frame.nexts]_vars
    /\ [][Asks =>
            /\ frame.nexts = ctl.solved
            /\ frame'.next.result =
                  (IF ctl.solved = 0 THEN "NONE" ELSE ctl.solve.result)]_vars
    /\ [](Terminal =>
            /\ frame.pc = "done"
            /\ frame.written = <<"PLAN NOT FOUND">>)
    /\ [][Terminal => UNCHANGED <<solveVars, theoryVars>>]_vars
    /\ [](~Terminal /\ ~frame.direct => frame.written = <<>>)

\* the scheduler runs out of lengths after several unsatisfiable iterations
C25_Witness ==
    /\ Terminal
    /\ ctl.solved >= 3
    /\ solver.length >= 2
    /\ frame.next.result = "UNSAT"

(* C26: with imin = k smain performs at least k solve iterations unless the  *)
(* scheduler runs out of lengths, also when an earlier iteration was        *)
(* satisfiable, and reports a model for each satisfiable length.            *)
C26_MinimumIterations ==
    (frame.pc = "done" /\ ~Terminal) => ctl.solved >= smain_args.imin

(* C27: every translate call of a session is made by the same Theory        *)
(* object, and a Next placeholder made at the old horizon is resolved when  *)
(* Solver.solve grounds further steps: none is pending below the horizon.   *)
C27_OneTheory ==
    (frame.pc \in {"loop", "solve", "done"} /\ ~frame.direct) =>
        /\ \A i, j \in 1..Len(ctl.translates) :
               ctl.translates[i].f = ctl.translates[j].f
        /\ \A k \in Pending : k[2] = horizon

----------------------------------------------------------------------------
(* Queue invariants of the schedulers A and B *)

\* a next() call has been made
AfterCall == Len(rets) >= 1

(* C28: scheduler A with valid parameters: after each next() call the queue  *)
(* holds at most size lengths, each of the form start + k*inc with k >= 0    *)
(* and start <= length <= limit.                                             *)
C28_WindowA ==
    (ValidA /\ AfterCall) =>
        /\ Len(runs) <= size
        /\ \A i \in 1..Len(runs) :
              /\ start <= runs[i]
              /\ runs[i] <= limit
              /\ \E k \in 0..limit : runs[i] = start + (k * inc)

\* a full window that has moved on after unsatisfiable results
C28_Witness ==
    /\ ValidA
    /\ Len(rets) >= 3
    /\ size >= 2
    /\ Len(runs) = size
    /\ runs[1] > start
    /\ runs[Len(runs)] = limit
    /\ result = "UNSAT"

\* the runs of a queue are in strictly increasing index order
Increasing(q) == \A i, j \in 1..Len(q) : i < j => q[i].index < q[j].index

(* C29: scheduler B: after every next() call the runs of the active queue   *)
(* are in strictly increasing index order, so are the runs of pending, and  *)
(* every pending run has a smaller index than every active run, the head    *)
(* included; the length of each run is start + inc * index.                 *)
C29_OrderB ==
    (alg = "B" /\ AfterCall) =>
        /\ Increasing(runs)
        /\ Increasing(next_runs)
        /\ \A i \in 1..Len(next_runs), j \in 1..Len(runs) :
               next_runs[i].index < runs[j].index
        /\ \A i \in 1..Len(runs) :
               runs[i].length = start + (inc * runs[i].index)
        /\ \A i \in 1..Len(next_runs) :
               next_runs[i].length = start + (inc * next_runs[i].index)

\* both queues hold runs: two are deferred, one is active
C29_Witness ==
    /\ alg = "B"
    /\ AfterCall
    /\ Len(next_runs) >= 2
    /\ Len(runs) >= 1
    /\ next_runs[1].effort >= 1

(* C30: scheduler B with valid parameters: active and pending together      *)
(* never hold more than size runs, and the run whose length next() returns  *)
(* is one to be solved (its solve flag is set).                              *)
C30_CapacityB ==
    (ValidB /\ AfterCall) =>
        /\ Len(runs) + Len(next_runs) <= size
        /\ ret # None => (runs[1].solve /\ ret = runs[1].length)

\* the queues are full while a run that is not to be solved waits in active
C30_Witness ==
    /\ ValidB
    /\ AfterCall
    /\ ret # None
    /\ size >= 2
    /\ Len(runs) + Len(next_runs) = size
    /\ \E i \in 1..Len(runs) : ~runs[i].solve

----------------------------------------------------------------------------
(* Scheduler B: the effect of a result on the runs and their effort *)

\* the indexes of the runs of queue q, in its order
Indexes(q) == [k \in 1..Len(q) |-> q[k].index]

\* sequence p is the beginning of sequence q
IsPrefix(p, q) == Len(p) <= Len(q) /\ SubSeq(q, 1, Len(p)) = p

\* the effort of the run with index i of the object with fields s
EffortOf(s, i) ==
    LET all == {s.runs[k] : k \in 1..Len(s.runs)}
               \cup {s.next_runs[k] : k \in 1..Len(s.next_runs)}
    IN  (CHOOSE r \in all : r.index = i).effort

----------------------------------------------------------------------------
(* Since and Trigger *)

\* the literal of formula object f at step t
LiteralAt(f, t) == data[<<f, t>>].literal

\* the translated (object, step) pairs of the past formulas
PastPairs == {k \in Translated : nodes[k[1]].kind = "TelFormulaP"}

\* the atoms of the literals L, rhs, pre and lhs (0: no lhs)
AtomsOf(L, rhs, pre, lhs) == {Abs(L), Abs(rhs), Abs(pre), Abs(lhs)} \ {0}

(* C32 as claimed: a past formula has the literal of rhs at step 0; at a     *)
(* step > 0, with pre its own literal at step-1, every assignment that       *)
(* satisfies the rules of a Since satisfies L -> rhs and (rhs & pre) -> L    *)
(* and, with an lhs, L -> (lhs | pre) and (rhs & lhs) -> L.                  *)
C32_SinceClauses ==
    \A k \in PastPairs :
        LET n == nodes[k[1]]
            L == data[k].literal
            rhs == LiteralAt(n.rhs, k[2])
        IN  /\ k[2] = 0 => L = rhs
            /\ (k[2] > 0 /\ n.op = "Since") =>
                  LET pre == LiteralAt(k[1], k[2] - 1)
                      lhs == IF n.lhs = 0 THEN 0 ELSE LiteralAt(n.lhs, k[2])
                      enc == Encoding(k)
                  IN  \A v \in [AtomsOf(L, rhs, pre, lhs) -> BOOLEAN] :
                        (\A i \in 1..Len(enc) : Satisfied(v, enc[i])) =>
                          /\ Holds(v, L) => Holds(v, rhs)
                          /\ (Holds(v, rhs) /\ Holds(v, pre)) => Holds(v, L)
                          /\ lhs # 0 =>
                              /\ Holds(v, L) =>
                                    (Holds(v, lhs) \/ Holds(v, pre))
                              /\ (Holds(v, rhs) /\ Holds(v, lhs)) =>
                                    Holds(v, L)

(* C32 amended: a past formula has the literal of rhs at step 0; at a step   *)
(* > 0, with pre its own literal at step-1, the first two rules of a Since   *)
(* are rhs -> L and L -> (rhs | pre) and, with an lhs, the next two are      *)
(* (lhs & pre) -> L and L -> (rhs | lhs).                                    *)
C32_SinceRules ==
    \A k \in PastPairs :
        LET n == nodes[k[1]]
            L == data[k].literal
            rhs == LiteralAt(n.rhs, k[2])
        IN  /\ k[2] = 0 => L = rhs
            /\ (k[2] > 0 /\ n.op = "Since") =>
                  LET pre == LiteralAt(k[1], k[2] - 1)
                      lhs == IF n.lhs = 0 THEN 0 ELSE LiteralAt(n.lhs, k[2])
                      enc == Encoding(k)
                  IN  /\ Len(enc) >= (IF lhs = 0 THEN 3 ELSE 4)
                      /\ \A v \in [AtomsOf(L, rhs, pre, lhs) -> BOOLEAN] :
                          /\ Satisfied(v, enc[1])
                                <=> (Holds(v, rhs) => Holds(v, L))
                          /\ Satisfied(v, enc[2])
                                <=> (Holds(v, L) =>
                                       (Holds(v, rhs) \/ Holds(v, pre)))
                          /\ lhs # 0 =>
                              /\ Satisfied(v, enc[3])
                                    <=> ((Holds(v, lhs) /\ Holds(v, pre))
                                           => Holds(v, L))
                              /\ Satisfied(v, enc[4])
                                    <=> (Holds(v, L) =>
                                           (Holds(v, rhs) \/ Holds(v, lhs)))

C32_Witness ==
    /\ ~raises /\ horizon = 2
    /\ \E k \in PastPairs :
          /\ nodes[k[1]].op = "Since" /\ nodes[k[1]].lhs # 0 /\ k[2] = 2
          /\ Len(Encoding(k)) >= 4
    /\ \E k \in PastPairs :
          /\ nodes[k[1]].op = "Since" /\ nodes[k[1]].lhs = 0 /\ k[2] = 1
          /\ LiteralAt(k[1], 0) = LiteralAt(nodes[k[1]].rhs, 0)

\* the translated (object, step) pairs TelFormula._translate added rules for
TelPairs ==
    {k \in Translated :
        \/ nodes[k[1]].kind = "TelFormulaP" /\ k[2] > 0
        \/ nodes[k[1]].kind = "TelFormulaN"}

\* the literal passed as pre: the formula's own literal at step-1, or the
\* literal of the Next paired with a future formula
PreOf(k) ==
    IF nodes[k[1]].kind = "TelFormulaP" THEN LiteralAt(k[1], k[2] - 1)
    ELSE LiteralAt(nodes[k[1]].future, k[2])

(* C33: for every Since with literal L an assignment satisfies the rules    *)
(* added for it exactly when L <-> (rhs | (lhs & pre)), L <-> (rhs | pre)   *)
(* without lhs; for every Trigger exactly when L <-> (rhs & (lhs | pre)),   *)
(* L <-> (rhs & pre) without lhs; pre of a future formula is the literal    *)
(* of its Next at the same step.  3 rules are added without lhs, 4 with.    *)
C33_SinceTriggerDual ==
    \A k \in TelPairs :
        LET n == nodes[k[1]]
            L == data[k].literal
            rhs == LiteralAt(n.rhs, k[2])
            pre == PreOf(k)
            lhs == IF n.lhs = 0 THEN 0 ELSE LiteralAt(n.lhs, k[2])
            number == IF lhs = 0 THEN 3 ELSE 4
            enc == Encoding(k)
        IN  /\ n.kind = "TelFormulaN" => n.future # 0 /\ pre # 0
            /\ Len(enc) >= number
            /\ \A i \in (number + 1)..Len(enc) : AliasClause(enc[i])
            /\ \A v \in [AtomsOf(L, rhs, pre, lhs) -> BOOLEAN] :
                  LET l == IF lhs = 0 THEN n.op = "Since" ELSE Holds(v, lhs)
                  IN  (\A i \in 1..number : Satisfied(v, enc[i]))
                      <=> (Holds(v, L) <=>
                             IF n.op = "Since"
                             THEN Holds(v, rhs) \/ (l /\ Holds(v, pre))
                             ELSE Holds(v, rhs) /\ (l \/ Holds(v, pre)))

C33_Witness ==
    /\ ~raises /\ horizon >= 1
    /\ \E k \in TelPairs :
          /\ nodes[k[1]].kind = "TelFormulaP" /\ nodes[k[1]].op = "Trigger"
          /\ nodes[k[1]].lhs # 0
    /\ \E k \in TelPairs :
          /\ nodes[k[1]].kind = "TelFormulaN" /\ nodes[k[1]].op = "Since"
          /\ nodes[k[1]].lhs # 0 /\ k[2] = horizon
          /\ <<nodes[k[1]].future, k[2]>> \in Placeholders

----------------------------------------------------------------------------
(* The false literal *)

\* the atom of formula object f does not exist at step t
Absent(f, t) ==
    ~(/\ nodes[f].arguments = <<>>
      /\ <<nodes[f].name, nodes[f].flag, t>> \in DOMAIN symbols)

\* the literals that stand for false in the translated formulas
FalseUses ==
    {data[k].literal : k \in {j \in Translated :
        \/ nodes[j[1]].kind = "Atom" /\ Absent(j[1], j[2])
        \/ nodes[j[1]].kind = "BooleanConstant" /\ ~nodes[j[1]].flag
        \/ nodes[j[1]].kind = "Previous" /\ j[2] = 0 /\ ~nodes[j[1]].flag}}
    \cup
    {-data[k].literal : k \in {j \in Translated :
        \/ nodes[j[1]].kind = "BooleanConstant" /\ nodes[j[1]].flag
        \/ nodes[j[1]].kind = "Previous" /\ j[2] = 0 /\ nodes[j[1]].flag}}

\* atom l is false in every answer set: it is an atom of no program rule,
\* of no external and in no head of an added rule
ForcedFalse(l) ==
    /\ l > 0
    /\ l \notin DOMAIN externals
    /\ l \notin TheoryLiterals
    /\ \A k \in DOMAIN symbols : symbols[k] # l
    /\ \A i \in 1..Len(rules) :
          \A j \in 1..Len(rules[i].head) : rules[i].head[j] # l

(* C34: in a solving session one atom at most is allocated as the false     *)
(* literal, it is false in every answer set, and every absent atom, every   *)
(* Boolean constant (complemented for true) and every Previous at step 0    *)
(* (complemented when weak) has it as its literal.                          *)
C34_SharedFalseLiteral ==
    /\ [](/\ Cardinality(FalseUses) <= 1
          /\ \A l \in FalseUses : ForcedFalse(l)
          /\ false_literal # 0 => FalseUses \subseteq {false_literal})
    /\ [][(false_literal # 0 /\ false_literal' # 0) =>
             false_literal' = false_literal]_vars

----------------------------------------------------------------------------
(* Unifying the literals of the &tel atoms *)

\* the Formula object the i-th &tel atom elaborates to
NodeOf(i) == create_formula(TheoryState, theory_atoms[i].term).res

\* the positions in rules of the clause with body b added for the pair k
Emitted(k, b) ==
    {j \in 1..Len(rules) :
        /\ rules[j].head = <<>> /\ rules[j].body = b
        /\ rules[j].by[1] = k[1] /\ rules[j].by[2] = k[2]}

\* the rules the first translate call of pair k added before the equalities
MainEncoding(k) ==
    {j \in 1..Len(rules) :
        /\ rules[j].by = <<k[1], k[2], 1>>
        /\ ~(rules[j].head = <<>> /\ AliasClause(rules[j]))}

(* C35: after a Theory.translate call that returns, every &tel atom with     *)
(* literal a is unified with the literal L of the (object, step) pair it     *)
(* elaborates to by one pair of clauses, a & -L and -a & L excluded, added   *)
(* once each over all calls and after the rules encoding the formula, and    *)
(* the todo list of the pair is empty.                                       *)
C35_EqualityOnce ==
    ~raises =>
        \A i \in 1..Len(theory_atoms) :
            LET k == <<NodeOf(i), theory_atoms[i].step>>
                a == theory_atoms[i].literal
                L == data[k].literal
            IN  /\ k \in Translated
                /\ data[k].todo = <<>>
                /\ Cardinality(Emitted(k, <<a, -L>>)) = 1
                /\ Cardinality(Emitted(k, <<-a, L>>)) = 1
                /\ \A j \in MainEncoding(k) :
                      \A e \in Emitted(k, <<a, -L>>) \cup Emitted(k, <<-a, L>>) :
                          j < e

----------------------------------------------------------------------------
(* Termination under conclusive results *)

\* the number of candidate lengths in [start, limit]
Candidates ==
    IF alg = "C" THEN Len(GrownLengths(<<start>>, Rat(start))) ELSE Count

(* C36: a scheduler with valid parameters that is given only SAT or UNSAT   *)
(* after the first call has returned None by its call number                *)
(* (candidate lengths in [start, limit]) + 1.                               *)
C36_Termination ==
    (stream = "conclusive" /\ (ValidA \/ ValidB \/ ValidC)
       /\ Len(rets) >= Candidates + 1) =>
        \E k \in 1..(Candidates + 1) : rets[k] = None

C36_Witness ==
    /\ TestB /\ gamma = <<2, 1>> /\ stream = "conclusive" /\ result = "UNSAT"
    /\ Len(rets) = Candidates + 1 /\ rets[Candidates + 1] = None
    /\ \A k \in 1..Candidates : rets[k] # None

----------------------------------------------------------------------------
(* Scheduler A: the lengths put into the queue *)

(* C37: scheduler A queues the lengths start, start+inc, start+2*inc, ...   *)
(* without a gap: whenever a length has been queued, every smaller          *)
(* start + j*inc has been queued as well.                                   *)
C37_NoGapA ==
    alg = "A" =>
        \A x \in queued :
            /\ x >= start /\ (x - start) % inc = 0
            /\ \A j \in 0..((x - start) \div inc) : start + (j * inc) \in queued

----------------------------------------------------------------------------
(* The blocked lengths *)

(* C38: after every next() call of A, B or C the blocked lengths (__nones)  *)
(* are lengths in flight: a length that left the queues is not counted as   *)
(* blocked any more.                                                        *)
C38_BlockedInFlight ==
    alg \in {"A", "B", "C"} => nones \subseteq InFlight

----------------------------------------------------------------------------
(* Interning and the weak operators *)

\* Formula object f is the formula theory term t stands for: the same
\* operator, the same weak flag and the same children
RECURSIVE Matches(_, _)
Matches(t, f) ==
    LET n == nodes[f]
        args == t.arguments
        unary == t.type = "Function" /\ Len(args) = 1
        binary == t.type = "Function" /\ Len(args) = 2
        Lhs == IF unary THEN n.lhs = 0 ELSE Matches(args[1], n.lhs)
    IN  IF unary /\ t.name \in {"<", "<:"}
        THEN /\ n.kind = "Previous" /\ n.flag = (t.name = "<:")
             /\ Matches(args[1], n.rhs)
        ELSE IF unary /\ t.name \in {">", ">:"}
        THEN /\ n.kind = "Next" /\ n.flag = (t.name = ">:")
             /\ Matches(args[1], n.rhs)
        ELSE IF unary /\ t.name = "~"
        THEN n.kind = "Negation" /\ Matches(args[1], n.rhs)
        ELSE IF unary /\ t.name = "<<"
        THEN n.kind = "Initially" /\ Matches(args[1], n.rhs)
        ELSE IF binary /\ t.name \in binary_operators
        THEN /\ n.kind = "BooleanFormula" /\ n.op = t.name
             /\ Matches(args[1], n.lhs) /\ Matches(args[2], n.rhs)
        ELSE IF (unary \/ binary) /\ t.name \in {"<?", "<*"}
        THEN /\ n.kind = "TelFormulaP"
             /\ n.op = (IF t.name = "<?" THEN "Since" ELSE "Trigger")
             /\ Lhs /\ Matches(args[Len(args)], n.rhs)
        ELSE IF (unary \/ binary) /\ t.name \in {">?", ">*"}
        THEN /\ n.kind = "TelFormulaN"
             /\ n.op = (IF t.name = ">?" THEN "Since" ELSE "Trigger")
             /\ Lhs /\ Matches(args[Len(args)], n.rhs)
        ELSE n.kind \in {"Atom", "BooleanConstant", "TelFormulaN"}

(* C39: the Formula object a theory term is interned to has the term's      *)
(* operator, weak/strong flag and children; a Previous at step 0 is false   *)
(* when strong and true when weak, and the placeholder of a Next at the     *)
(* horizon is set to False when strong and to True when weak.               *)
C39_InterningDistinct ==
    ~raises =>
        \A i \in 1..Len(theory_atoms) :
            LET t == theory_atoms[i].term
                k == <<NodeOf(i), theory_atoms[i].step>>
                unary == t.type = "Function" /\ Len(t.arguments) = 1
            IN  /\ Matches(t, k[1])
                /\ (unary /\ t.name \in {"<", "<:"} /\ k[2] = 0) =>
                      data[k].literal = IF t.name = "<:" THEN -false_literal
                                        ELSE false_literal
                /\ (unary /\ t.name \in {">", ">:"} /\ k \in Pending) =>
                      externals[data[k].literal]
                         = IF t.name = ">:" THEN "True" ELSE "False"

----------------------------------------------------------------------------
(* The schedulers of telingo/__init__.py next to those of                   *)
(* telingo/scheduler/__init__.py.  Both objects are built with the same     *)
(* arguments and every result is passed to both; the object of              *)
(* telingo/__init__.py is called up to its first None.                      *)

\* B_Scheduler.__init__ of telingo/__init__.py
B_Scheduler ==
    [index |-> 0, runs |-> <<>>, next_runs |-> <<>>, first |-> TRUE,
     nones |-> {}]

\* B_Scheduler.next of telingo/__init__.py from "if no more runs" on
B_Scheduler_refill(s) ==
    IF s.runs # <<>> THEN [self |-> s, res |-> s.runs[1].length]
    ELSE IF s.next_runs # <<>>
    THEN IF Cardinality(s.nones) = Len(s.next_runs)
         THEN [self |-> s, res |-> None]
         ELSE LET rs == B_Admit(s.next_runs)
                  g == B_Grow(rs, s.index, rs[1], s.nones)
              IN  [self |-> [s EXCEPT !.runs = g.runs, !.index = g.index,
                                      !.next_runs = <<>>],
                   res |-> g.runs[1].length]
    ELSE LET new == Run(s.index, start + (inc * s.index), 0, TRUE)
         IN  IF new.length > limit
             THEN [self |-> [s EXCEPT !.runs = <<new>>, !.index = @ + 1],
                   res |-> None]
             ELSE LET g == B_Grow(<<new>>, s.index + 1, new, s.nones)
                  IN  [self |-> [s EXCEPT !.runs = g.runs, !.index = g.index,
                                          !.next_runs = <<>>],
                       res |-> g.runs[1].length]

\* B_Scheduler.next(result) of telingo/__init__.py
B_Scheduler_next(s, res) ==
    LET current == s.runs[1]
        nr == IF res = "NONE" THEN Append(s.next_runs, current)
              ELSE IF res = "UNKNOWN"
              THEN Append(s.next_runs, [current EXCEPT !.effort = @ + 1])
              ELSE IF res = "UNSAT" /\ propagate_unsat THEN <<>>
              ELSE s.next_runs
        ns == IF res = "NONE" THEN s.nones \cup {current.index}
              ELSE s.nones \ {current.index}
        m == B_Skip(Tail(s.runs), nr)
    IN  IF s.first THEN B_Scheduler_refill([s EXCEPT !.first = FALSE])
        ELSE B_Scheduler_refill([s EXCEPT !.nones = ns, !.runs = m.runs,
                                          !.next_runs = m.next_runs])

\* C_Scheduler.__init__ of telingo/__init__.py
C_Scheduler ==
    [length |-> Rat(start), runs |-> <<>>, first |-> TRUE, nones |-> {}]

\* the end of C_Scheduler.next: the head of the runs, None when there is none
C_Scheduler_return(s) ==
    [self |-> s, res |-> IF Len(s.runs) > 0 THEN s.runs[1] ELSE None]

\* C_Scheduler.next(result) of telingo/__init__.py
C_Scheduler_next(s, res) ==
    IF s.first
    THEN C_Scheduler_return(
             [s EXCEPT !.runs = <<Trunc(s.length)>>, !.first = FALSE,
                       !.length = IF s.length = Rat(0) THEN Rat(1) ELSE @])
    ELSE IF res = "NONE"
    THEN LET ns == s.nones \cup {s.runs[1]}
         IN  IF Cardinality(ns) = Len(s.runs)
             THEN [self |-> [s EXCEPT !.nones = ns], res |-> None]
             ELSE C_Scheduler_return(
                      [s EXCEPT !.nones = ns,
                                !.runs = Tail(Append(@, s.runs[1]))])
    ELSE LET current_length == s.runs[1]
             ns == s.nones \ {current_length}
             product == RatMul(s.length, inc)
             next_length == IF Trunc(product) = Trunc(s.length)
                            THEN RatAdd1(s.length) ELSE product
             grow == Trunc(next_length) <= limit /\ ns = {}
             grown == IF grow THEN Append(s.runs, Trunc(next_length))
                      ELSE s.runs
             handled == IF res = "UNKNOWN" THEN Append(grown, current_length)
                        ELSE IF propagate_unsat
                        THEN SelectSeq(grown, LAMBDA i : i >= current_length)
                        ELSE grown
         IN  C_Scheduler_return(
                 [s EXCEPT !.nones = ns, !.runs = Tail(handled),
                           !.length = IF grow THEN next_length ELSE @])

\* the object of telingo/__init__.py built with the arguments of the other
Legacy ==
    IF alg = "A"
    THEN A_Scheduler([start |-> start, inc |-> inc, limit |-> limit,
                      propagate_unsat |-> propagate_unsat], size)
    ELSE IF alg = "B" THEN B_Scheduler
    ELSE C_Scheduler

\* its next(res), called as long as it has not returned None
Legacy_next(res) ==
    IF \E k \in 1..Len(legacy.rets) : legacy.rets[k] = None THEN legacy
    ELSE LET r == IF alg = "A" THEN A_Scheduler_next(legacy.self, res)
                  ELSE IF alg = "B" THEN B_Scheduler_next(legacy.self, res)
                  ELSE C_Scheduler_next(legacy.self, res)
         IN  [self |-> r.self, rets |-> Append(legacy.rets, r.res)]

\* both objects constructed with valid arguments
LegacyInit ==
    \E c \in Configs, st \in Streams \ {"alternating"} :
        /\ ConfigIdle
        /\ TheoryIdle
        /\ SolveIdle
        /\ Constructed(c, st)
        /\ ValidA \/ ValidB \/ ValidC
        /\ legacy = [self |-> Legacy, rets |-> <<>>]

Both_A_next ==
    \E res \in Results :
        /\ alg = "A"
        /\ MayCall(res)
        /\ LET s == A_Step(res)
           IN  CallOn(res, s, IF Len(s.runs) > 0 THEN s.runs[1] ELSE None)
        /\ legacy' = Legacy_next(res)

Both_B_next ==
    \E res \in Results :
        /\ alg = "B"
        /\ MayCall(res)
        /\ LET s == B_Step(res)
           IN  CallOn(res, s, s.runs[1].length)
        /\ legacy' = Legacy_next(res)

Both_C_next ==
    \E res \in Results :
        /\ alg = "C"
        /\ MayCall(res)
        /\ LET s == C_Step(res)
           IN  CallOn(res, s, IF Len(s.runs) > 0 THEN s.runs[1] ELSE None)
        /\ legacy' = Legacy_next(res)

LegacyNext == Both_A_next \/ Both_B_next \/ Both_C_next

LegacySpec == LegacyInit /\ [][LegacyNext]_vars

(* C40: for valid parameters and every result sequence the A, B and C       *)
(* schedulers of telingo/__init__.py return what the schedulers of          *)
(* telingo/scheduler/__init__.py return, call by call, up to and including  *)
(* the first None.                                                          *)
C40_GenerationsAgree ==
    legacy # <<>> =>
        \A k \in 1..Len(legacy.rets) :
            (\A j \in 1..(k - 1) : rets[j] # None) => legacy.rets[k] = rets[k]

====
